---- MODULE Spec2Model ----
(***************************************************************************)
(* Model of the tree-indexed terrain store of grid_engine                  *)
(* (native/common/src/world.rs): the chunk key encoder, the index nodes,   *)
(* TerrainDiskStorage and TerrainChunkData.                                *)
(*                                                                         *)
(* A u64 is a set of bit positions in 0..63, because keys and tagged       *)
(* pointers use bits that a 32-bit integer of TLC cannot hold.  File       *)
(* offsets and lengths are small and are plain integers.  Memory mapped    *)
(* files are sparse: an offset that is absent from the map holds zero.     *)
(***************************************************************************)
EXTENDS Integers, Sequences, FiniteSets, TLC

(***************************************************************************)
(* Option values.                                                          *)
(***************************************************************************)
None == [some |-> FALSE]
Some(v) == [some |-> TRUE, v |-> v]

(***************************************************************************)
(* u64 arithmetic on bit sets.                                             *)
(***************************************************************************)
U64Bits == 0..63

Pow2(n) == 2 ^ n

\* The bits of a non-negative integer below 2^31.
Bits(n) == {i \in 0..30 : (n \div Pow2(i)) % 2 = 1}

RECURSIVE Val(_)
\* The integer a bit set below 2^31 stands for.
Val(S) == IF S = {} THEN 0
          ELSE LET i == CHOOSE i \in S : TRUE IN Pow2(i) + Val(S \ {i})

\* u64 `<<`: bits shifted past bit 63 are lost.
Shl(S, k) == {i + k : i \in S} \cap U64Bits

\* A hexadecimal u64 literal, given as its 16 digits, most significant first.
Hex(digits) == {4 * (16 - k) + b : k \in 1..16, b \in 0..3} \cap
               {p \in U64Bits : (digits[16 - (p \div 4)] \div Pow2(p % 4)) % 2 = 1}

Bit(S, p) == IF p \in S THEN 1 ELSE 0

\* u64::to_le_bytes: byte k (from 1) holds bits 8(k-1) .. 8(k-1)+7.
to_le_bytes(S) ==
    [k \in 1..8 |->
        Bit(S, 8 * k - 8) + 2 * Bit(S, 8 * k - 7) + 4 * Bit(S, 8 * k - 6) + 8 * Bit(S, 8 * k - 5)
        + 16 * Bit(S, 8 * k - 4) + 32 * Bit(S, 8 * k - 3) + 64 * Bit(S, 8 * k - 2) + 128 * Bit(S, 8 * k - 1)]

\* u64::from_le_bytes.
from_le_bytes(bytes) ==
    {p \in U64Bits : bytes[(p \div 8) + 1] # 0 /\ (bytes[(p \div 8) + 1] \div Pow2(p % 8)) % 2 = 1}

(***************************************************************************)
(* Program constants.                                                      *)
(***************************************************************************)
CHUNK_BLOCKS == 16 * 16 * 16
CHUNK_LENGTH == 16 * 16 * 16 * 2
NODE_LENGTH == 256 * 8
\* The tag set on every stored pointer, 0x8000_0000_0000_0000.
SENTINEL == Hex(<<8, 0, 0, 0, 0, 0, 0, 0, 0, 0, 0, 0, 0, 0, 0, 0>>)

(***************************************************************************)
(* The chunk key.                                                          *)
(***************************************************************************)
\* `input as u64`: sign extension of an i16.
I16AsU64(input) == IF input < 0 THEN Bits(input + 65536) \cup (16..63) ELSE Bits(input)

\* 0x000000000000FFFF
LOW16 == Hex(<<0, 0, 0, 0, 0, 0, 0, 0, 0, 0, 0, 0, 15, 15, 15, 15>>)

magic_numbers ==
    << <<32, Hex(<<0, 0, 15, 15, 0, 0, 0, 0, 0, 0, 0, 0, 15, 15, 15, 15>>)>>,
       <<16, Hex(<<0, 0, 15, 15, 0, 0, 0, 0, 15, 15, 0, 0, 0, 0, 15, 15>>)>>,
       <<8, Hex(<<15, 0, 0, 15, 0, 0, 15, 0, 0, 15, 0, 0, 15, 0, 0, 15>>)>>,
       <<4, Hex(<<3, 0, 12, 3, 0, 12, 3, 0, 12, 3, 0, 12, 3, 0, 12, 3>>)>>,
       <<2, Hex(<<9, 2, 4, 9, 2, 4, 9, 2, 4, 9, 2, 4, 9, 2, 4, 9>>)>> >>

RECURSIVE spread_rounds(_, _)
spread_rounds(input, r) ==
    IF r > Len(magic_numbers) THEN input
    ELSE spread_rounds((input \cup Shl(input, magic_numbers[r][1])) \cap magic_numbers[r][2], r + 1)

spread_bits(input) ==
    spread_rounds(I16AsU64(input) \cap LOW16, 1)

\* A mutant of create_chunk_key: the offsets of x and y are exchanged.
create_chunk_key_xy_swapped(x, y, z) ==
    Shl(spread_bits(x), 1) \cup Shl(spread_bits(y), 2) \cup spread_bits(z)

\* A mutant of create_chunk_key: y is not offset, so it shares z's bit lane.
create_chunk_key_no_y_shift(x, y, z) ==
    Shl(spread_bits(x), 2) \cup spread_bits(y) \cup spread_bits(z)

create_chunk_key(x, y, z) ==
    Shl(spread_bits(x), 2) \cup Shl(spread_bits(y), 1) \cup spread_bits(z)

(***************************************************************************)
(* The state.                                                              *)
(*   index_file, chunk_file     the lengths of the two files               *)
(*   index_memory, chunk_memory the mappings: the mapped length and the    *)
(*                              non-zero content (shared with the file)    *)
(*   chunk                      the TerrainChunkData the caller holds      *)
(*   last                       the latest call and what it returned       *)
(*   requested                  coordinate -> address, for the coordinates *)
(*                              get_or_create_chunk has returned Ok for    *)
(*   io_failures                the I/O failures injected so far           *)
(*   workers                    the calls of the concurrent callers        *)
(*   key_in, key_out            inputs and results of the key encoder      *)
(* and of the GridWorld:                                                   *)
(*   terrain_chunks             the HashMap of the loaded chunks           *)
(*   provided                   coordinate -> the number of provide_chunk  *)
(*                              calls the chunk provider has received      *)
(*   world_last                 the latest call of the GridWorld API       *)
(*   chunk_provider             the RAMWorld: its block registry and its   *)
(*                              terrain generators                         *)
(*   error_log                  the errors the logger has received         *)
(* and of the ChunkDiskStorage:                                            *)
(*   root_folder                file name -> content, the files of the     *)
(*                              root folder                                *)
(*   saved                      coordinate -> the blocks of the latest     *)
(*                              chunk save_chunk was called with           *)
(*   folder_last                the latest call of the ChunkDiskStorage    *)
(* and of the Scheduler:                                                   *)
(*   scheduler                  the Scheduler: priority_queue, the channel *)
(*                              of event_tx and event_rx, current_time,    *)
(*                              thread_pool                                *)
(*   tick_pc                    where the running tick call stands         *)
(*   ran                        the events whose callbacks have run, in    *)
(*                              the order they ran                         *)
(*   scheduled                  the events schedule_event has accepted     *)
(*   sched_last                 the latest schedule_event or tick call     *)
(*   event_ids                  the events made, and the events the        *)
(*                              callbacks scheduled so far may still make  *)
(* and of the EventTypeRegistry:                                           *)
(*   event_type_ids             the HashMap from type name to id           *)
(*   event_type_names           the Vec of the type names, by id           *)
(*   registry_last              the latest call of the registry            *)
(* and of the callers of a RAMWorld and of a Chunk:                        *)
(*   provider_last              the latest provide_chunk call made on the  *)
(*                              RAMWorld itself                            *)
(*   local_chunk                the Chunk the caller holds                 *)
(*   chunk_last                 the latest call made on that Chunk         *)
(* and of the threads that share the ChunkDiskStorage:                     *)
(*   folder_threads             thread -> the call it is in and where the  *)
(*                              call stands                                *)
(*   attempted                  the blocks the threads have passed to      *)
(*                              save_chunk since the latest save_chunk     *)
(*                              that ran alone                             *)
(***************************************************************************)
VARIABLES index_file, chunk_file, index_memory, chunk_memory,
          chunk, last, requested, io_failures, workers, key_in, key_out

VARIABLES terrain_chunks, provided, world_last, chunk_provider, error_log

VARIABLES root_folder, saved, folder_last

VARIABLES scheduler, tick_pc, ran, scheduled, sched_last, event_ids

VARIABLES event_type_ids, event_type_names, registry_last

VARIABLES provider_last

VARIABLES local_chunk, chunk_last

VARIABLES folder_threads, attempted

store_vars == <<index_file, chunk_file, index_memory, chunk_memory>>
world_vars == <<terrain_chunks, provided, world_last, chunk_provider, error_log>>
folder_vars == <<root_folder, saved, folder_last>>
scheduler_vars == <<scheduler, tick_pc, ran, scheduled, sched_last, event_ids>>
registry_vars == <<event_type_ids, event_type_names, registry_last>>

\* The variables of the components that stand on their own.
provider_vars == <<provider_last>>
chunk_vars == <<local_chunk, chunk_last>>
folder_thread_vars == <<folder_threads, attempted>>
extra_vars == <<registry_vars, provider_vars, chunk_vars, folder_thread_vars>>

\* The variables of the TerrainDiskStorage, its callers and the key encoder.
disk_storage_vars == <<store_vars, chunk, last, requested, io_failures, workers, key_in, key_out>>

\* The variables of the components other than the TerrainDiskStorage, other
\* than the GridWorld, other than the ChunkDiskStorage.
other_components == <<world_vars, folder_vars, scheduler_vars, extra_vars>>
outside_world == <<disk_storage_vars, folder_vars, scheduler_vars, extra_vars>>
outside_folder == <<disk_storage_vars, world_vars, scheduler_vars, extra_vars>>
outside_scheduler == <<disk_storage_vars, world_vars, folder_vars, extra_vars>>
base_components == <<disk_storage_vars, world_vars, folder_vars, scheduler_vars>>
outside_registry == <<base_components, provider_vars, chunk_vars, folder_thread_vars>>
outside_provider == <<disk_storage_vars, folder_vars, scheduler_vars, registry_vars, chunk_vars,
                      folder_thread_vars>>
outside_chunk == <<base_components, registry_vars, provider_vars, folder_thread_vars>>
outside_folder_threads == <<disk_storage_vars, world_vars, scheduler_vars, registry_vars, provider_vars,
                            chunk_vars>>

vars == <<index_file, chunk_file, index_memory, chunk_memory,
          chunk, last, requested, io_failures, workers, key_in, key_out,
          terrain_chunks, provided, world_last, chunk_provider, error_log,
          root_folder, saved, folder_last,
          scheduler, tick_pc, ran, scheduled, sched_last, event_ids,
          event_type_ids, event_type_names, registry_last, provider_last,
          local_chunk, chunk_last, folder_threads, attempted>>

\* self: the TerrainDiskStorage as one value.
Self == [index_file |-> index_file, chunk_file |-> chunk_file,
         index_memory |-> index_memory, chunk_memory |-> chunk_memory]

IsSelf(self) ==
    /\ index_file = self.index_file
    /\ chunk_file = self.chunk_file
    /\ index_memory = self.index_memory
    /\ chunk_memory = self.chunk_memory

SetSelf(self) ==
    /\ index_file' = self.index_file
    /\ chunk_file' = self.chunk_file
    /\ index_memory' = self.index_memory
    /\ chunk_memory' = self.chunk_memory

(***************************************************************************)
(* IndexNode.                                                              *)
(***************************************************************************)
ZeroSlot == <<0, 0, 0, 0, 0, 0, 0, 0>>

\* memory[offset..offset + 8] of the index mapping.
ReadSlot(memory, offset) ==
    IF offset \in DOMAIN memory.slots THEN memory.slots[offset] ELSE ZeroSlot

\* Slicing a mapping outside its length panics.
InBounds(memory, from, to) == from <= to /\ to <= memory.len

IndexNode_load(offset) ==
    IF offset % 256 = 0 THEN [ok |-> TRUE, file_offset |-> offset]
    ELSE [ok |-> FALSE, file_offset |-> offset]

get_pointer_internal(node, key, memory) ==
    LET offset_key == node.file_offset + key * 8
        pointer == from_le_bytes(ReadSlot(memory, offset_key))
    IN  IF pointer # {} THEN Some(pointer \ SENTINEL) ELSE None

get_pointer(node, key, memory) == get_pointer_internal(node, key, memory)

\* A mutant of set_pointer: the address is stored without the sentinel bit.
set_pointer_no_sentinel(node, key, address, memory) ==
    [memory EXCEPT !.slots = (node.file_offset + key * 8 :> to_le_bytes(address)) @@ @]

\* The mapping after set_pointer; address is a u64.
set_pointer(node, key, address, memory) ==
    LET offset_key == node.file_offset + key * 8
    IN  [memory EXCEPT !.slots = (offset_key :> to_le_bytes(address \cup SENTINEL)) @@ @]

\* get_node(pointer, |node| Ok(node.get_pointer(key))): "ok" with the slot,
\* "err" for an unaligned node, "panic" for a slice outside the mapping.
get_node(self, pointer, key) ==
    LET node == IndexNode_load(Val(pointer))
    IN  IF ~node.ok THEN [status |-> "err", val |-> None]
        ELSE IF ~InBounds(self.index_memory, node.file_offset + key * 8, node.file_offset + key * 8 + 8)
             THEN [status |-> "panic", val |-> None]
        ELSE [status |-> "ok", val |-> get_pointer(node, key, self.index_memory)]

\* get_node_mut(pointer, |node| node.set_pointer(key, address)).
get_node_mut(self, pointer, key, address) ==
    LET node == IndexNode_load(Val(pointer))
    IN  IF ~node.ok THEN [status |-> "err", self |-> self]
        ELSE IF ~InBounds(self.index_memory, node.file_offset + key * 8, node.file_offset + key * 8 + 8)
             THEN [status |-> "panic", self |-> self]
        ELSE [status |-> "ok",
              self |-> [self EXCEPT !.index_memory = set_pointer(node, key, address, @)]]

(***************************************************************************)
(* Growing the files.  fail is "none", or the I/O call that fails:         *)
(* "set_len" (File::set_len) or "map" (MmapMut::map_mut).                  *)
(***************************************************************************)
\* A mutant of new_node: the file grows by an eighth of a node, which the
\* alignment assertion of new_node accepts.
new_node_short(self, fail) ==
    LET pointer == self.index_file
        grown == [self EXCEPT !.index_file = pointer + NODE_LENGTH \div 8]
    IN  IF fail = "set_len" THEN [status |-> "err", self |-> self, pointer |-> Bits(pointer)]
        ELSE IF pointer % 256 # 0 THEN [status |-> "panic", self |-> grown, pointer |-> Bits(pointer)]
        ELSE IF fail = "map" THEN [status |-> "err", self |-> grown, pointer |-> Bits(pointer)]
        ELSE [status |-> "ok",
              self |-> [grown EXCEPT !.index_memory.len = grown.index_file],
              pointer |-> Bits(pointer)]

new_node(self, fail) ==
    LET pointer == self.index_file
        grown == [self EXCEPT !.index_file = pointer + NODE_LENGTH]
    IN  IF fail = "set_len" THEN [status |-> "err", self |-> self, pointer |-> Bits(pointer)]
        ELSE IF pointer % 256 # 0 THEN [status |-> "panic", self |-> grown, pointer |-> Bits(pointer)]
        ELSE IF fail = "map" THEN [status |-> "err", self |-> grown, pointer |-> Bits(pointer)]
        ELSE [status |-> "ok",
              self |-> [grown EXCEPT !.index_memory.len = grown.index_file],
              pointer |-> Bits(pointer)]

\* A mutant of new_chunk: the chunk file grows by two chunk lengths.
new_chunk_double(self, fail) ==
    LET end == self.chunk_file
        pointer == IF end = 1 THEN 0 ELSE end
        grown == [self EXCEPT !.chunk_file = pointer + 2 * CHUNK_LENGTH]
    IN  IF pointer % 4096 # 0 THEN [status |-> "panic", self |-> self, pointer |-> Bits(pointer \div 16)]
        ELSE IF fail = "set_len" THEN [status |-> "err", self |-> self, pointer |-> Bits(pointer \div 16)]
        ELSE IF fail = "map" THEN [status |-> "err", self |-> grown, pointer |-> Bits(pointer \div 16)]
        ELSE [status |-> "ok",
              self |-> [grown EXCEPT !.chunk_memory.len = grown.chunk_file],
              pointer |-> Bits(pointer \div 16)]

new_chunk(self, fail) ==
    LET end == self.chunk_file
        pointer == IF end = 1 THEN 0 ELSE end
        grown == [self EXCEPT !.chunk_file = pointer + CHUNK_LENGTH]
    IN  IF pointer % 4096 # 0 THEN [status |-> "panic", self |-> self, pointer |-> Bits(pointer \div 16)]
        ELSE IF fail = "set_len" THEN [status |-> "err", self |-> self, pointer |-> Bits(pointer \div 16)]
        ELSE IF fail = "map" THEN [status |-> "err", self |-> grown, pointer |-> Bits(pointer \div 16)]
        ELSE [status |-> "ok",
              self |-> [grown EXCEPT !.chunk_memory.len = grown.chunk_file],
              pointer |-> Bits(pointer \div 16)]

\* initialize on files of the given lengths and content.
initialize(index_len, index_slots, chunk_len, chunk_bytes) ==
    LET index_file_length == IF index_len = 0 THEN NODE_LENGTH ELSE index_len
        chunk_file_length == IF chunk_len = 0 THEN CHUNK_LENGTH ELSE chunk_len
    IN  [index_file |-> index_file_length,
         chunk_file |-> chunk_file_length,
         index_memory |-> [len |-> index_file_length, slots |-> index_slots],
         chunk_memory |-> [len |-> chunk_file_length, bytes |-> chunk_bytes]]

(***************************************************************************)
(* TerrainChunkData.  storage holds the non-zero blocks, by index.         *)
(***************************************************************************)
\* address is the ChunkPointer, a u64; the handle keeps address.0 << 4.
TerrainChunkData_create(x, y, z, address) ==
    [storage |-> << >>, address |-> Val(Shl(address, 4)), x |-> x, y |-> y, z |-> z]

\* chunk_memory[offset], one byte.
ReadByte(memory, offset) ==
    IF offset \in DOMAIN memory.bytes THEN memory.bytes[offset] ELSE 0

\* load_chunk: the blocks read from chunk_memory[chunk_address.0 ..
\* chunk_address.0 + CHUNK_LENGTH], two bytes per block, little-endian.
load_chunk(self, data, chunk_address) ==
    LET from == Val(chunk_address)
        memory == self.chunk_memory
        written == {o \in DOMAIN memory.bytes : from <= o /\ o < from + CHUNK_LENGTH}
        blocks == {(o - from) \div 2 : o \in written}
    IN  IF ~InBounds(memory, from, from + CHUNK_LENGTH) THEN [status |-> "panic", chunk |-> data]
        ELSE IF CHUNK_LENGTH # 2 * CHUNK_BLOCKS THEN [status |-> "err", chunk |-> data]
        ELSE [status |-> "ok",
              chunk |-> [data EXCEPT !.storage =
                            [i \in blocks |-> ReadByte(memory, from + 2 * i)
                                              + 256 * ReadByte(memory, from + 2 * i + 1)]]]

\* save_chunk: block i goes to chunk_memory[address + 2i] and [address + 2i + 1].
save_chunk(self, data) ==
    LET to == data.address
        memory == self.chunk_memory
        kept == {o \in DOMAIN memory.bytes : ~(to <= o /\ o < to + CHUNK_LENGTH)}
        first == {to + 2 * i : i \in {j \in DOMAIN data.storage : data.storage[j] % 256 # 0}}
        second == {to + 2 * i + 1 : i \in {j \in DOMAIN data.storage : data.storage[j] \div 256 # 0}}
    IN  IF ~InBounds(memory, to, to + CHUNK_LENGTH) THEN [status |-> "panic", self |-> self]
        ELSE [status |-> "ok",
              self |-> [self EXCEPT !.chunk_memory.bytes =
                           [o \in kept \cup first \cup second |->
                               IF o \in kept THEN memory.bytes[o]
                               ELSE IF (o - to) % 2 = 0 THEN data.storage[(o - to) \div 2] % 256
                               ELSE data.storage[(o - to) \div 2] \div 256]]]

(***************************************************************************)
(* Address resolution.                                                     *)
(***************************************************************************)
\* keys = &key_bytes[3..7], chunk_key = key_bytes[7] (indices from 0).
node_keys(key) == SubSeq(to_le_bytes(key), 4, 7)
chunk_key_of(key) == to_le_bytes(key)[8]

ROOT == {}

RECURSIVE get_walk(_, _, _, _, _)
\* The loop of get_chunk_address from its i-th key on; lookups counts the
\* get_node calls made.
get_walk(self, keys, i, node_address, lookups) ==
    IF i > Len(keys) THEN [status |-> "ok", node |-> Some(node_address), lookups |-> lookups]
    ELSE LET next == get_node(self, node_address, keys[i])
         IN  IF next.status # "ok" THEN [status |-> next.status, node |-> None, lookups |-> lookups + 1]
             ELSE IF ~next.val.some THEN [status |-> "ok", node |-> None, lookups |-> lookups + 1]
             ELSE get_walk(self, keys, i + 1, next.val.v, lookups + 1)

\* I/O failures of one call: the at-th growth of a file in the call fails in
\* its step kind; at = 0 is a call without failure.
FailOf(io, n) == IF io.at = n THEN io.kind ELSE "none"

\* A mutant of link_new_node: the parent slot is written before the growth of
\* the file is known to have succeeded.
link_new_node_early(self, node_address, key, fail) ==
    LET made == new_node(self, fail)
        linked == get_node_mut(made.self, node_address, key, made.pointer)
    IN  IF made.status # "ok" THEN [status |-> made.status, self |-> linked.self, address |-> made.pointer]
        ELSE [status |-> linked.status, self |-> linked.self, address |-> made.pointer]

\* The else branch of the loop of get_or_create_chunk_address: new_node()?,
\* then set_pointer in the parent.
link_new_node(self, node_address, key, fail) ==
    LET made == new_node(self, fail)
    IN  IF made.status # "ok" THEN [status |-> made.status, self |-> made.self, address |-> made.pointer]
        ELSE LET linked == get_node_mut(made.self, node_address, key, made.pointer)
             IN  [status |-> linked.status, self |-> linked.self, address |-> made.pointer]

RECURSIVE create_walk(_, _, _, _, _, _)
\* The loop of get_or_create_chunk_address from its i-th key on; grown counts
\* the nodes the call has allocated.
create_walk(self, keys, i, node_address, io, grown) ==
    IF i > Len(keys) THEN [status |-> "ok", self |-> self, node |-> node_address, grown |-> grown]
    ELSE LET next == get_node(self, node_address, keys[i])
         IN  IF next.status # "ok"
             THEN [status |-> next.status, self |-> self, node |-> node_address, grown |-> grown]
             ELSE IF next.val.some
             THEN create_walk(self, keys, i + 1, next.val.v, io, grown)
             ELSE LET made == link_new_node(self, node_address, keys[i], FailOf(io, grown + 1))
                  IN  IF made.status # "ok"
                      THEN [status |-> made.status, self |-> made.self, node |-> node_address, grown |-> grown]
                      ELSE create_walk(made.self, keys, i + 1, made.address, io, grown + 1)

\* A mutant of resolve_chunk: no look at the slot, a chunk is always allocated.
resolve_chunk_always_new(self, node_address, chunk_key, fail) ==
    LET made == new_chunk(self, fail)
    IN  IF made.status # "ok"
        THEN [status |-> made.status, self |-> made.self, created |-> FALSE, address |-> made.pointer]
        ELSE LET linked == get_node_mut(made.self, node_address, chunk_key, made.pointer)
             IN  [status |-> linked.status, self |-> linked.self,
                  created |-> linked.status = "ok", address |-> made.pointer]

\* The end of get_or_create_chunk_address: the chunk slot of the last node.
resolve_chunk(self, node_address, chunk_key, fail) ==
    LET chunk_address == get_node(self, node_address, chunk_key)
    IN  IF chunk_address.status # "ok"
        THEN [status |-> chunk_address.status, self |-> self, created |-> FALSE, address |-> {}]
        ELSE IF chunk_address.val.some
        THEN [status |-> "ok", self |-> self, created |-> FALSE, address |-> chunk_address.val.v]
        ELSE LET made == new_chunk(self, fail)
             IN  IF made.status # "ok"
                 THEN [status |-> made.status, self |-> made.self, created |-> FALSE, address |-> made.pointer]
                 ELSE LET linked == get_node_mut(made.self, node_address, chunk_key, made.pointer)
                      IN  [status |-> linked.status, self |-> linked.self,
                           created |-> linked.status = "ok", address |-> made.pointer]

\* The end of get_or_create_chunk_address, on the result of its loop.
create_resolved(walk, chunk_key, io) ==
    IF walk.status # "ok"
    THEN [status |-> walk.status, self |-> walk.self, created |-> FALSE, address |-> {}]
    ELSE resolve_chunk(walk.self, walk.node, chunk_key, FailOf(io, walk.grown + 1))

get_or_create_chunk_address(self, key, io) ==
    create_resolved(create_walk(self, node_keys(key), 1, ROOT, io, 0), chunk_key_of(key), io)

\* What a caller of get_chunk_address sees of a get_or_create_chunk_address.
as_lookup(found) ==
    [status |-> found.status, self |-> found.self, val |-> Some(found.address), lookups |-> 5]

\* A mutant of get_chunk_address: the walk of get_or_create_chunk_address.
get_chunk_address_creating(self, key) ==
    as_lookup(get_or_create_chunk_address(self, key, [at |-> 0, kind |-> "none"]))

\* The end of get_chunk_address, on the result of its loop.
get_resolved(self, walk, chunk_key) ==
    IF walk.status # "ok" \/ ~walk.node.some
    THEN [status |-> walk.status, self |-> self, val |-> None, lookups |-> walk.lookups]
    ELSE LET chunk_address == get_node(self, walk.node.v, chunk_key)
         IN  [status |-> chunk_address.status, self |-> self,
              val |-> chunk_address.val, lookups |-> walk.lookups + 1]

get_chunk_address(self, key) ==
    get_resolved(self, get_walk(self, node_keys(key), 1, ROOT, 0), chunk_key_of(key))

(***************************************************************************)
(* The public calls.                                                       *)
(***************************************************************************)
\* get_chunk past its get_chunk_address(key)?: create and load_chunk.
get_chunk_loaded(chunk_address, x, y, z) ==
    IF chunk_address.status # "ok"
    THEN [status |-> chunk_address.status, self |-> chunk_address.self,
          ret |-> None, lookups |-> chunk_address.lookups]
    ELSE IF ~chunk_address.val.some
    THEN [status |-> "ok", self |-> chunk_address.self, ret |-> None, lookups |-> chunk_address.lookups]
    ELSE LET loaded == load_chunk(chunk_address.self,
                                  TerrainChunkData_create(x, y, z, chunk_address.val.v),
                                  chunk_address.val.v)
         IN  [status |-> loaded.status, self |-> chunk_address.self,
              ret |-> IF loaded.status = "ok" THEN Some(loaded.chunk) ELSE None,
              lookups |-> chunk_address.lookups]

get_chunk(self, x, y, z) ==
    get_chunk_loaded(get_chunk_address(self, create_chunk_key(x, y, z)), x, y, z)

\* get_or_create_chunk past its get_or_create_chunk_address(key)?: create and
\* load_chunk.
get_or_create_chunk_loaded(found, x, y, z) ==
    IF found.status # "ok"
    THEN [status |-> found.status, self |-> found.self, created |-> FALSE, ret |-> None]
    ELSE LET loaded == load_chunk(found.self, TerrainChunkData_create(x, y, z, found.address),
                                  found.address)
         IN  [status |-> loaded.status, self |-> found.self, created |-> found.created,
              ret |-> IF loaded.status = "ok" THEN Some(loaded.chunk) ELSE None]

get_or_create_chunk(self, x, y, z, io) ==
    get_or_create_chunk_loaded(get_or_create_chunk_address(self, create_chunk_key(x, y, z), io),
                               x, y, z)

\* flush_index: msync of the index mapping; what the mapping holds is what the
\* file holds, so no content of the model changes.
flush_index(self) == [status |-> "ok", self |-> self]

(***************************************************************************)
(* The GridWorld: the chunks held in memory, with their chunk provider.    *)
(* A chunk is its index and its non-zero blocks, by block index.           *)
(***************************************************************************)
\* Chunk::new: a blank chunk.
Chunk_new(location) == [index |-> location, storage |-> << >>]

Inf(a, b) == IF a < b THEN a ELSE b
Abs(a) == IF a < 0 THEN -a ELSE a

\* The items of the Rust range start..end, in order: end is not one of them.
Range(start, end) == [i \in 1..(end - start) |-> start + i - 1]

\* a.cartesian_product(b): the pairs in a-major order.
cartesian_product(a, b) ==
    [i \in 1..(Len(a) * Len(b)) |-> <<a[((i - 1) \div Len(b)) + 1], b[((i - 1) % Len(b)) + 1]>>]

\* The chunk geometry of world/storage.rs.
NUM_BLOCK_ADDRESS_BITS == 4
CHUNK_DIAMETER == Pow2(NUM_BLOCK_ADDRESS_BITS)
LOCAL_BLOCK_COORDINATE_BITS == CHUNK_DIAMETER - 1

\* ChunkData::get_data: the blocks of the chunk are indexed from zero.
NumBlocks == CHUNK_DIAMETER * CHUNK_DIAMETER * CHUNK_DIAMETER

\* v & mask for a mask of low bits.
AndLowBits(v, mask) == v % (mask + 1)

\* LocalBlockCoordinateExt::validate: the high bits of each axis are cleared.
validate(location) ==
    <<AndLowBits(location[1], LOCAL_BLOCK_COORDINATE_BITS),
      AndLowBits(location[2], LOCAL_BLOCK_COORDINATE_BITS),
      AndLowBits(location[3], LOCAL_BLOCK_COORDINATE_BITS)>>

\* The block at an index of the storage of a chunk: zero where nothing is kept.
BlockAt(chunk_data, index) ==
    IF index \in DOMAIN chunk_data.storage THEN chunk_data.storage[index] ELSE 0

\* Chunk::direct_access: Ok(Some(BlockID)), Ok(None) for a zero block, or
\* Err(OutOfRange).
direct_access(chunk_data, index) ==
    IF index >= NumBlocks THEN [ok |-> FALSE, err |-> "OutOfRange"]
    ELSE [ok |-> TRUE,
          v |-> IF BlockAt(chunk_data, index) # 0 THEN Some(BlockAt(chunk_data, index)) ELSE None]

\* Chunk::direct_access_mut and a write through the reference it returns:
\* block is the Option<BlockID> that is stored, None is stored as zero.
direct_access_mut(chunk_data, index, block) ==
    IF index >= NumBlocks THEN [ok |-> FALSE, err |-> "OutOfRange", chunk |-> chunk_data]
    ELSE [ok |-> TRUE,
          chunk |-> [chunk_data EXCEPT !.storage =
                        IF block.some THEN (index :> block.v) @@ @
                        ELSE [i \in DOMAIN @ \ {index} |-> @[i]]]]

\* The index of a local coordinate in the storage.
BlockIndex(location) ==
    location[1] + location[2] * CHUNK_DIAMETER + location[3] * CHUNK_DIAMETER * CHUNK_DIAMETER

\* Chunk::get_single_block_local: expect() panics on Err.
get_single_block_local(chunk_data, location) ==
    LET r == direct_access(chunk_data, BlockIndex(validate(location)))
    IN  IF r.ok THEN [panic |-> FALSE, v |-> r.v] ELSE [panic |-> TRUE]

\* Chunk::get_single_block_local_mut and a write through the reference.
get_single_block_local_mut(chunk_data, location, block) ==
    LET r == direct_access_mut(chunk_data, BlockIndex(validate(location)), block)
    IN  [panic |-> ~r.ok, chunk |-> r.chunk]

\* LocalBlockRange::from_end_points.
LocalBlockRange_from_end_points(first, second) ==
    LET a == validate(first)
        b == validate(second)
    IN  [root_block |-> <<Inf(a[1], b[1]), Inf(a[2], b[2]), Inf(a[3], b[3])>>,
         size |-> <<Abs(a[1] - b[1]), Abs(a[2] - b[2]), Abs(a[3] - b[3])>>]

\* LocalBlockRange::get_near_and_far.
LocalBlockRange_get_near_and_far(range) ==
    [near |-> range.root_block,
     far |-> <<range.root_block[1] + range.size[1], range.root_block[2] + range.size[2],
               range.root_block[3] + range.size[3]>>]

\* The axes of the six orders, outermost first: 1 is x, 2 is y, 3 is z.
AxisOrders ==
    [yxz |-> <<2, 1, 3>>, yzx |-> <<2, 3, 1>>, xyz |-> <<1, 2, 3>>,
     xzy |-> <<1, 3, 2>>, zxy |-> <<3, 1, 2>>, zyx |-> <<3, 2, 1>>]

\* LocalBlockRange::iter_yxz .. iter_zyx and their _mut forms: the local
\* coordinates the iterator passes to get_single_block_local, in order.
LocalBlockRange_iter(range, order) ==
    LET ends == LocalBlockRange_get_near_and_far(range)
        axes == AxisOrders[order]
        internal_iterator ==
            cartesian_product(cartesian_product(Range(ends.near[axes[1]], ends.far[axes[1]]),
                                                Range(ends.near[axes[2]], ends.far[axes[2]])),
                              Range(ends.near[axes[3]], ends.far[axes[3]]))
        \* conversion_function: the value of axis k of the item abc.
        Axis(abc, k) == IF axes[1] = k THEN abc[1][1] ELSE IF axes[2] = k THEN abc[1][2] ELSE abc[2]
    IN  [i \in 1..Len(internal_iterator) |->
            <<Axis(internal_iterator[i], 1), Axis(internal_iterator[i], 2), Axis(internal_iterator[i], 3)>>]

\* Chunk::iter_ideal and Chunk::iter_ideal_mut.
iter_ideal(range) == LocalBlockRange_iter(range, "xyz")

\* Chunk::range_all_blocks.
range_all_blocks ==
    LocalBlockRange_from_end_points(<<0, 0, 0>>, <<CHUNK_DIAMETER, CHUNK_DIAMETER, CHUNK_DIAMETER>>)

RECURSIVE for_each_set(_, _, _, _)
\* iterator.for_each(|block| *block = value) over a LocalBlockIteratorMut.
for_each_set(chunk_data, items, i, value) ==
    IF i > Len(items) THEN chunk_data
    ELSE for_each_set(get_single_block_local_mut(chunk_data, items[i], value).chunk, items, i + 1, value)

\* BlockRegistry::new.
BlockRegistry_new == [block_data |-> << >>, block_ids |-> << >>]

\* BlockRegistry::add_block: ids count from one.
add_block(registry, name) ==
    IF name \notin DOMAIN registry.block_ids
    THEN [registry |-> [block_data |-> Append(registry.block_data, name),
                        block_ids |-> (name :> Len(registry.block_data) + 1) @@ registry.block_ids],
          result |-> "Ok"]
    ELSE [registry |-> registry, result |-> "KeyAlreadyExists"]

\* BlockRegistry::get_block_id_from_name.
get_block_id_from_name(registry, name) ==
    IF name \in DOMAIN registry.block_ids THEN Some(registry.block_ids[name]) ELSE None

\* AbstractFlatWorld::new.
AbstractFlatWorld_new == [kind |-> "AbstractFlatWorld", result |-> "Finished", abstract_block |-> None]

\* A TerrainGenerator that populates nothing and returns Ok(Continue),
\* Ok(Finished) or Err.
StubGenerator(result) == [kind |-> "Stub", result |-> result, abstract_block |-> None]

\* TerrainGenerator::initialize_block_ids.
initialize_block_ids(generator, registry) ==
    IF generator.kind = "AbstractFlatWorld"
    THEN LET added == add_block(registry, "abstract_block").registry
         IN  [generator |-> [generator EXCEPT !.abstract_block =
                                get_block_id_from_name(added, "abstract_block")],
              registry |-> added]
    ELSE [generator |-> generator, registry |-> registry]

\* TerrainGenerator::populate_chunk: the chunk after the call and the result.
populate_chunk(generator, chunk_data) ==
    IF generator.kind = "AbstractFlatWorld"
    THEN [chunk |-> IF chunk_data.index[2] < 0
                    THEN for_each_set(chunk_data, iter_ideal(range_all_blocks), 1,
                                      generator.abstract_block)
                    ELSE chunk_data,
          result |-> "Finished"]
    ELSE [chunk |-> chunk_data, result |-> generator.result]

\* RAMWorld::new.
RAMWorld_new(block_registry) == [block_registry |-> block_registry, generators |-> << >>]

\* RAMWorld::add_generator.
add_generator(self, generator) ==
    LET r == initialize_block_ids(generator, self.block_registry)
    IN  [block_registry |-> r.registry, generators |-> Append(self.generators, r.generator)]

\* log::error!("Fatal error while populating chunk: {:?}", error), for the
\* error of the i-th generator.
ErrorLogged(i) == <<"Fatal error while populating chunk", i>>

RECURSIVE provide_chunk_run(_, _, _, _, _)
\* The match on what the i-th generator returned: populated is the chunk and
\* the result of its populate_chunk.
provide_chunk_match(generators, i, populated, calls, log) ==
    IF populated.result = "Finished"
    THEN [chunk |-> populated.chunk, calls |-> calls, log |-> log]
    ELSE provide_chunk_run(generators, i + 1, populated.chunk, calls,
                           IF populated.result = "Continue" THEN log ELSE Append(log, ErrorLogged(i)))

\* A mutant of provide_chunk_run: the loop ends at a generator that fails.
provide_chunk_run_stop_on_error(generators, i, chunk_data, calls, log) ==
    IF i > Len(generators) THEN [chunk |-> chunk_data, calls |-> calls, log |-> log]
    ELSE IF populate_chunk(generators[i], chunk_data).result = "Err"
    THEN [chunk |-> chunk_data, calls |-> Append(calls, i), log |-> Append(log, ErrorLogged(i))]
    ELSE provide_chunk_match(generators, i, populate_chunk(generators[i], chunk_data),
                             Append(calls, i), log)

\* The loop of RAMWorld::provide_chunk from the i-th generator on: the chunk,
\* the generators called so far, in order, and the errors logged.
provide_chunk_run(generators, i, chunk_data, calls, log) ==
    IF i > Len(generators) THEN [chunk |-> chunk_data, calls |-> calls, log |-> log]
    ELSE provide_chunk_match(generators, i, populate_chunk(generators[i], chunk_data),
                             Append(calls, i), log)

\* RAMWorld::provide_chunk: the chunk as the generators leave it.
provide_chunk(generators, blank) == provide_chunk_run(generators, 1, blank, << >>, << >>).chunk

\* The errors RAMWorld::provide_chunk logs.
provide_chunk_log(generators, blank) == provide_chunk_run(generators, 1, blank, << >>, << >>).log

\* GridWorld::new.  error_log is what the logger has received.
GridWorld_new(provider) ==
    [terrain_chunks |-> << >>, provided |-> << >>, chunk_provider |-> provider, error_log |-> << >>]

\* The GridWorld as one value.
World == [terrain_chunks |-> terrain_chunks, provided |-> provided,
          chunk_provider |-> chunk_provider, error_log |-> error_log]

SetWorld(world) ==
    /\ terrain_chunks' = world.terrain_chunks
    /\ provided' = world.provided
    /\ chunk_provider' = world.chunk_provider
    /\ error_log' = world.error_log

\* provide_chunk calls received for a coordinate.
ProvidedFor(world, index) ==
    IF index \in DOMAIN world.provided THEN world.provided[index] ELSE 0

\* GridWorld::get_chunk: terrain_chunks.get(index).
GridWorld_get_chunk(world, index) ==
    IF index \in DOMAIN world.terrain_chunks THEN Some(world.terrain_chunks[index]) ELSE None

\* A mutant of GridWorld_load_chunk: the chunk is made and provided at every
\* call.
GridWorld_load_chunk_insert(world, index) ==
    [world EXCEPT
        !.terrain_chunks = (index :> provide_chunk(world.chunk_provider.generators, Chunk_new(index))) @@ @,
        !.provided = (index :> ProvidedFor(world, index) + 1) @@ @,
        !.error_log = @ \o provide_chunk_log(world.chunk_provider.generators, Chunk_new(index))]

\* GridWorld::load_chunk: terrain_chunks.entry(index).or_insert_with(...).
GridWorld_load_chunk(world, index) ==
    IF index \in DOMAIN world.terrain_chunks THEN world
    ELSE [world EXCEPT
             !.terrain_chunks = (index :> provide_chunk(world.chunk_provider.generators, Chunk_new(index))) @@ @,
             !.provided = (index :> ProvidedFor(world, index) + 1) @@ @,
             !.error_log = @ \o provide_chunk_log(world.chunk_provider.generators, Chunk_new(index))]

\* ChunkRange::from_end_points.
from_end_points(first, second) ==
    [root_chunk |-> <<Inf(first[1], second[1]), Inf(first[2], second[2]), Inf(first[3], second[3])>>,
     size |-> <<Abs(first[1] - second[1]), Abs(first[2] - second[2]), Abs(first[3] - second[3])>>]

\* ChunkRange::get_near_and_far.
get_near_and_far(range) ==
    [near |-> range.root_chunk,
     far |-> <<range.root_chunk[1] + range.size[1], range.root_chunk[2] + range.size[2],
               range.root_chunk[3] + range.size[3]>>]

\* ChunkRange::iter_xyz: the coordinates the ChunkIterator yields, in order.
iter_xyz(range) ==
    LET ends == get_near_and_far(range)
        xs == Range(ends.near[1], ends.far[1])
        ys == Range(ends.near[2], ends.far[2])
        zs == Range(ends.near[3], ends.far[3])
        internal_iterator == cartesian_product(cartesian_product(xs, ys), zs)
    IN  [i \in 1..Len(internal_iterator) |->
            <<internal_iterator[i][1][1], internal_iterator[i][1][2], internal_iterator[i][2]>>]

RECURSIVE load_chunks(_, _, _)
\* The loop of load_chunk_range from the i-th item of the iterator on.
load_chunks(world, items, i) ==
    IF i > Len(items) THEN world
    ELSE load_chunks(GridWorld_load_chunk(world, items[i]), items, i + 1)

\* GridWorld::load_chunk_range.
load_chunk_range(world, range) == load_chunks(world, iter_xyz(range), 1)

\* A call of the GridWorld API: visits are the coordinates a range call has
\* passed to load_chunk, ret is the chunk a call has returned.
WorldCall(op, args, visits, ret) == [op |-> op, args |-> args, visits |-> visits, ret |-> ret]

InitWorld ==
    /\ \E world \in {GridWorld_new(RAMWorld_new(BlockRegistry_new))} :
           /\ terrain_chunks = world.terrain_chunks
           /\ provided = world.provided
           /\ chunk_provider = world.chunk_provider
           /\ error_log = world.error_log
    /\ world_last = WorldCall("new", << >>, << >>, None)

(***************************************************************************)
(* The ChunkDiskStorage: one file per chunk in the root folder.  A file    *)
(* name is a sequence of characters; the content of a file is the deflate  *)
(* stream of its bytes, kept as the non-zero bytes by offset.              *)
(***************************************************************************)
\* ChunkData::create: all blocks zero; storage holds the non-zero blocks.
ChunkData_create(x, y, z) == [storage |-> << >>, x |-> x, y |-> y, z |-> z]

\* storage.rs has its own create_chunk_key, the same code as world.rs.
ChunkDiskStorage_create_chunk_key(x, y, z) ==
    Shl(spread_bits(x), 2) \cup Shl(spread_bits(y), 1) \cup spread_bits(z)

HexDigits == <<"0", "1", "2", "3", "4", "5", "6", "7", "8", "9", "A", "B", "C", "D", "E", "F">>

\* The hexadecimal digit n of a u64, digit 0 the least significant.
HexDigit(key, n) ==
    HexDigits[1 + Bit(key, 4 * n) + 2 * Bit(key, 4 * n + 1) + 4 * Bit(key, 4 * n + 2)
                + 8 * Bit(key, 4 * n + 3)]

\* The digits {:012X} prints: at least 12, and as many as the value needs.
HexWidth(key) ==
    LET needed == {n \in 12..15 : key \cap (4 * n)..(4 * n + 3) # {}}
    IN  IF needed = {} THEN 12 ELSE 1 + CHOOSE n \in needed : \A m \in needed : m <= n

\* A mutant of create_chunk_file_name: the least significant digit is left out.
create_chunk_file_name_short(key) ==
    [i \in 1..(HexWidth(key) - 1) |-> HexDigit(key, HexWidth(key) - i)]

\* format!("{:012X}", key.0), most significant digit first.
create_chunk_file_name(key) ==
    [i \in 1..HexWidth(key) |-> HexDigit(key, HexWidth(key) - i)]

\* root_folder.join(file name): the file is named inside the root folder.
create_chunk_path(x, y, z) == create_chunk_file_name(ChunkDiskStorage_create_chunk_key(x, y, z))

\* path.set_extension(".backup") on a file name without extension.
backup_path_of(path) == path \o <<".", ".", "b", "a", "c", "k", "u", "p">>

\* u16::to_le_bytes of every block: the non-zero bytes by offset.
BlockBytes(storage) ==
    LET byte(o) == IF o % 2 = 0 THEN storage[o \div 2] % 256 ELSE storage[o \div 2] \div 256
        offsets == UNION {{2 * i, 2 * i + 1} : i \in DOMAIN storage}
    IN  [o \in {o \in offsets : byte(o) # 0} |-> byte(o)]

\* The blocks read_exact leaves in the chunk: the bytes land in memory as they
\* are; a big-endian target then turns each block around with from_le_bytes.
BytesBlocks(bytes, target_endian) ==
    LET byte(o) == IF o \in DOMAIN bytes THEN bytes[o] ELSE 0
        in_memory(i) == IF target_endian = "little" THEN byte(2 * i) + 256 * byte(2 * i + 1)
                        ELSE 256 * byte(2 * i) + byte(2 * i + 1)
        to_ne_bytes(i) == IF target_endian = "little"
                          THEN <<in_memory(i) % 256, in_memory(i) \div 256>>
                          ELSE <<in_memory(i) \div 256, in_memory(i) % 256>>
        block(i) == IF target_endian = "little" THEN in_memory(i)
                    ELSE to_ne_bytes(i)[1] + 256 * to_ne_bytes(i)[2]
        indexes == {o \div 2 : o \in DOMAIN bytes}
    IN  [i \in {i \in indexes : block(i) # 0} |-> block(i)]

\* DeflateEncoder and DeflateDecoder: a stream that decodes to the bytes
\* written into it.
DeflateEncoder(bytes, compression_level) == [deflate |-> bytes, level |-> compression_level]
DeflateDecoder(data) == data.deflate

\* ChunkDiskStorage::load_chunk.
ChunkDiskStorage_load_chunk(folder, data, target_endian) ==
    LET path == create_chunk_path(data.x, data.y, data.z)
    IN  IF path \in DOMAIN folder
        THEN [loaded |-> TRUE,
              data |-> [data EXCEPT !.storage = BytesBlocks(DeflateDecoder(folder[path]), target_endian)]]
        ELSE [loaded |-> FALSE, data |-> data]

\* ChunkDiskStorage::get_chunk.
ChunkDiskStorage_get_chunk(folder, x, y, z, target_endian) ==
    LET r == ChunkDiskStorage_load_chunk(folder, ChunkData_create(x, y, z), target_endian)
    IN  IF r.loaded THEN Some(r.data) ELSE None

\* ChunkDiskStorage::save_chunk: the folder after the call.
ChunkDiskStorage_save_chunk(folder, data, compression_level) ==
    LET path == create_chunk_path(data.x, data.y, data.z)
        backup_path == backup_path_of(path)
        removed == [f \in DOMAIN folder \ {backup_path} |-> folder[f]]
        renamed == IF path \in DOMAIN folder
                   THEN (backup_path :> folder[path]) @@ [f \in DOMAIN removed \ {path} |-> removed[f]]
                   ELSE folder
    IN  (path :> DeflateEncoder(BlockBytes(data.storage), compression_level)) @@ renamed

\* A call of the ChunkDiskStorage API and the chunk it returned.
FolderCall(op, coord, ret) == [op |-> op, coord |-> coord, ret |-> ret]

\* ChunkDiskStorage::initialize on an empty folder.
InitFolder ==
    /\ root_folder = << >>
    /\ saved = << >>
    /\ folder_last = FolderCall("initialize", << >>, None)

(***************************************************************************)
(* The Scheduler.  An event is its time and its callback; id tells apart   *)
(* events that are equal in both.  The callback of an event is named: the  *)
(* name stands for a closure, CallbackBody says what the closure does.     *)
(***************************************************************************)
\* Event::new.
Event_new(id, time, callback) == [id |-> id, time |-> time, callback |-> callback]

\* The closures of the model, by what they do with the proxy p they are given:
\*   "nop"    |_p| {}
\*   "next"   schedules Event::new(p.now() + 1, "nop")
\*   "chain"  schedules Event::new(p.now() + 1, "next")
\*   "past"   schedules Event::new(Time::from_ms(0), "nop")
\* A closure ignores the result of schedule_event.
CallbackBody(callback) ==
    CASE callback = "nop" -> << >>
      [] callback = "next" -> <<[base |-> "now", plus |-> 1, callback |-> "nop"]>>
      [] callback = "chain" -> <<[base |-> "now", plus |-> 1, callback |-> "next"]>>
      [] callback = "past" -> <<[base |-> "from_ms", plus |-> 0, callback |-> "nop"]>>

RECURSIVE EventsOf(_)
\* The events the run of a closure may make: the event that holds it, and the
\* events the closures it schedules may make.
EventsOf(callback) ==
    LET body == CallbackBody(callback)
    IN  1 + (IF body = << >> THEN 0 ELSE EventsOf(body[1].callback))

\* Scheduler::new.
Scheduler_new(num_threads) ==
    [priority_queue |-> {},
     event_channel |-> << >>,
     current_time |-> 0,
     thread_pool |-> [queue |-> << >>, running |-> {}, num_threads |-> num_threads]]

\* A mutant of as_millis: a part of a millisecond counts as a whole one.
as_millis_ceil(delta) == (delta + 999) \div 1000

\* Duration::as_millis, of a Duration in microseconds: the whole milliseconds.
as_millis(delta) == delta \div 1000

\* Time += Duration.
add_assign(time_ms, delta) == time_ms + as_millis(delta)

\* Scheduler::now.
now(self) == self.current_time

\* Scheduler::schedule_event.
Scheduler_schedule_event(self, event) ==
    IF event.time >= now(self)
    THEN [result |-> "Ok", self |-> [self EXCEPT !.event_channel = Append(@, event)]]
    ELSE [result |-> "ScheduledInPast", self |-> self]

\* The proxy tick hands to the callback of the event next.
SchedulerProxy(next) == [current_time |-> next.time]

\* A mutant of SchedulerProxy_schedule_event: the time of the proxy itself is
\* taken to be in the past.
SchedulerProxy_schedule_event_strict(proxy, self, event) ==
    IF event.time > proxy.current_time
    THEN [result |-> "Ok", self |-> [self EXCEPT !.event_channel = Append(@, event)]]
    ELSE [result |-> "ScheduledInPast", self |-> self]

\* SchedulerProxy::schedule_event; self is the scheduler event_tx sends to.
SchedulerProxy_schedule_event(proxy, self, event) ==
    IF event.time >= proxy.current_time
    THEN [result |-> "Ok", self |-> [self EXCEPT !.event_channel = Append(@, event)]]
    ELSE [result |-> "ScheduledInPast", self |-> self]

\* Event::run_callback: the closure runs with the proxy.  calls are the
\* schedule_event calls it has made.
run_callback(self, event, proxy, first_id) ==
    LET body == CallbackBody(event.callback)
    IN  IF body = << >> THEN [self |-> self, calls |-> << >>]
        ELSE LET child == Event_new(first_id,
                                    (IF body[1].base = "now" THEN proxy.current_time ELSE 0) + body[1].plus,
                                    body[1].callback)
                 sent == SchedulerProxy_schedule_event(proxy, self, child)
             IN  [self |-> sent.self,
                  calls |-> <<[event |-> child, now |-> proxy.current_time, result |-> sent.result]>>]

\* The orders in which BinaryHeap::pop may hand out the events S: by time,
\* events of equal time in any order.
PopOrders(S) ==
    {order \in [1..Cardinality(S) -> S] :
        /\ \A i, j \in DOMAIN order : i # j => order[i] # order[j]
        /\ \A i, j \in DOMAIN order : i < j => order[i].time <= order[j].time}

\* A mutant of pop_loop: an event whose time is the current time is left in
\* the queue.
pop_loop_early(self, order) ==
    LET due == {e \in self.priority_queue : e.time < self.current_time}
    IN  [self EXCEPT !.priority_queue = @ \ due,
                     !.thread_pool.queue = @ \o SelectSeq(order, LAMBDA e : e \in due)]

\* The inner loop of tick, with the order in which pop hands out the events of
\* the queue: the events that are due go to thread_pool.execute in that
\* order; the first event that is not due is pushed back.
pop_loop(self, order) ==
    LET due == {e \in self.priority_queue : e.time <= self.current_time}
    IN  [self EXCEPT !.priority_queue = @ \ due,
                     !.thread_pool.queue = @ \o SelectSeq(order, LAMBDA e : e \in due)]

\* add_events: the events try_iter finds in the channel go to the queue.
add_events(self) ==
    [added |-> Len(self.event_channel) # 0,
     self |-> [self EXCEPT !.priority_queue = @ \cup {self.event_channel[i] : i \in DOMAIN self.event_channel},
                           !.event_channel = << >>]]

\* thread_pool.join() returns when no job is queued and none is running.
Joined(self) == self.thread_pool.queue = << >> /\ self.thread_pool.running = {}

\* A call of schedule_event or of tick.
SchedCall(op, time, at, result) == [op |-> op, time |-> time, now |-> at, result |-> result]

InitScheduler(num_threads) ==
    /\ scheduler = Scheduler_new(num_threads)
    /\ tick_pc = "idle"
    /\ ran = << >>
    /\ scheduled = {}
    /\ sched_last = SchedCall("new", 0, 0, "Ok")
    /\ event_ids = [made |-> 0, reserved |-> 0]

(***************************************************************************)
(* The EventTypeRegistry.  A name is a sequence of characters.             *)
(***************************************************************************)
\* str::contains(c).
contains(str, c) == \E i \in 1..Len(str) : str[i] = c

\* format!("{}:{}", package_name, event_name).
format_name(package_name, event_name) == package_name \o <<":">> \o event_name

\* EventTypeRegistry::new.
EventTypeRegistry_new == [event_type_ids |-> << >>, event_type_names |-> << >>]

\* The EventTypeRegistry as one value.
Registry == [event_type_ids |-> event_type_ids, event_type_names |-> event_type_names]

\* HashMap::len.
MapLen(map) == Cardinality(DOMAIN map)

\* EventTypeRegistry::register_event_message_raw: the registry after the call
\* and the result of the call.
register_event_message_raw(self, package_name, event_name) ==
    IF ~contains(package_name, ":") /\ ~contains(event_name, ":")
    THEN LET name == format_name(package_name, event_name)
         IN  [self |-> [event_type_ids |-> (name :> MapLen(self.event_type_ids)) @@ self.event_type_ids,
                        event_type_names |-> Append(self.event_type_names, name)],
              result |-> "Ok"]
    ELSE [self |-> self, result |-> "Err"]

\* EventTypeRegistry::get_event_type_id.
get_event_type_id(self, event_name) ==
    IF event_name \in DOMAIN self.event_type_ids THEN Some(self.event_type_ids[event_name]) ELSE None

\* EventTypeRegistry::get_event_type_name: ids count from zero.
get_event_type_name(self, event_id) ==
    IF event_id + 1 \in DOMAIN self.event_type_names THEN Some(self.event_type_names[event_id + 1]) ELSE None

\* A call of the registry, its arguments and what it returned.
RegistryCall(op, args, ret) == [op |-> op, args |-> args, ret |-> ret]

InitRegistry ==
    /\ event_type_ids = EventTypeRegistry_new.event_type_ids
    /\ event_type_names = EventTypeRegistry_new.event_type_names
    /\ registry_last = RegistryCall("new", << >>, None)

\* A provide_chunk call made on the RAMWorld: the generators it had, the
\* chunk as it was left, the generators called, in order, and the errors
\* logged.
ProviderCall(op, generators, chunk_data, calls, log) ==
    [op |-> op, generators |-> generators, chunk |-> chunk_data, calls |-> calls, log |-> log]

InitProvider == provider_last = ProviderCall("new", << >>, None, << >>, << >>)

\* A call made on a Chunk: visits are the local coordinates an iterator has
\* passed to get_single_block_local, items the blocks it has yielded.
ChunkCall(op, args, visits, items, ret) ==
    [op |-> op, args |-> args, visits |-> visits, items |-> items, ret |-> ret]

InitChunk ==
    /\ local_chunk = Chunk_new(<<0, 0, 0>>)
    /\ chunk_last = ChunkCall("new", << >>, << >>, << >>, None)

\* The threads that share the ChunkDiskStorage.
FolderThreads == {1, 2}

\* A thread that is in no call of the ChunkDiskStorage.
IdleThread == [op |-> "none", pc |-> "idle"]

InitFolderThreads ==
    /\ folder_threads = [t \in FolderThreads |-> IdleThread]
    /\ attempted = {}

\* The components that stand on their own, as constructed.
InitExtra == InitRegistry /\ InitProvider /\ InitChunk /\ InitFolderThreads

(***************************************************************************)
(* Bounds and inputs of the model.                                         *)
(***************************************************************************)
\* The chunks a run may allocate.
MaxChunks == 2
\* The I/O failures a run may meet.
MaxFailures == 1
\* The non-zero blocks the chunk file may hold.
MaxSavedBlocks == 1

\* Chunk coordinates: the origin, its x neighbour, and the first x whose key
\* differs in key_bytes[4].
Coords == {<<0, 0, 0>>, <<1, 0, 0>>, <<1024, 0, 0>>}

\* The blocks the caller writes: the first block.
BlockWrites == {<<0, 7>>}

NoFailure == [at |-> 0, kind |-> "none"]
IoPlans == {NoFailure} \cup [at : 1..5, kind : {"set_len", "map"}]

\* The record of a call: again says that get_or_create_chunk had returned Ok
\* for the same coordinate before.
Call(op, coord, status, created, some, lookups) ==
    [op |-> op, coord |-> coord, status |-> status, created |-> created,
     some |-> some, lookups |-> lookups, again |-> coord \in DOMAIN requested,
     reopened |-> FALSE]

CoordOf(data) == <<data.x, data.y, data.z>>

(***************************************************************************)
(* The sequential caller.                                                  *)
(***************************************************************************)
\* TerrainDiskStorage::initialize on two empty files.
InitStorage ==
    /\ IsSelf(initialize(0, << >>, 0, << >>))
    /\ chunk = None
    /\ requested = << >>
    /\ last = Call("initialize", << >>, "ok", FALSE, FALSE, 0)
    /\ io_failures = 0
    /\ workers = << >>
    /\ key_out = None

Init ==
    /\ InitWorld
    /\ InitFolder
    /\ InitScheduler(1)
    /\ InitStorage
    /\ InitExtra
    /\ key_in = None

\* get_or_create_chunk(x, y, z) under the I/O failure plan io; the caller
\* keeps the chunk it is given.
GetOrCreateChunk(c, io) ==
    /\ io.at = 0 \/ io_failures < MaxFailures
    /\ \E r \in {get_or_create_chunk(Self, c[1], c[2], c[3], io)} :
        /\ r.self.chunk_file <= (MaxChunks + 1) * CHUNK_LENGTH
        /\ SetSelf(r.self)
        /\ chunk' = IF r.ret.some THEN r.ret ELSE chunk
        /\ last' = Call("get_or_create_chunk", c, r.status, r.created, r.ret.some, 0)
        /\ requested' = IF r.status = "ok" /\ c \notin DOMAIN requested
                        THEN (c :> r.ret.v.address) @@ requested
                        ELSE requested
        /\ io_failures' = IF r.status = "err" THEN io_failures + 1 ELSE io_failures
        /\ UNCHANGED <<workers, key_in, key_out, other_components>>

\* get_chunk(x, y, z); the caller keeps the chunk if it is given one.
GetChunk(c) ==
    \E r \in {get_chunk(Self, c[1], c[2], c[3])} :
        /\ SetSelf(r.self)
        /\ chunk' = IF r.ret.some THEN r.ret ELSE chunk
        /\ last' = Call("get_chunk", c, r.status, FALSE, r.ret.some, r.lookups)
        /\ UNCHANGED <<requested, io_failures, workers, key_in, key_out, other_components>>

\* chunk.get_data_mut()[i] = v on the chunk the caller holds.
SetBlock(i, v) ==
    /\ chunk.some
    /\ chunk' = Some([chunk.v EXCEPT !.storage =
                        IF v = 0 THEN [j \in DOMAIN @ \ {i} |-> @[j]] ELSE (i :> v) @@ @])
    /\ last' = Call("set_block", CoordOf(chunk.v), "ok", FALSE, FALSE, 0)
    /\ UNCHANGED <<store_vars, requested, io_failures, workers, key_in, key_out, other_components>>

\* save_chunk(&chunk) of the chunk the caller holds.
SaveChunk ==
    /\ chunk.some
    /\ \E r \in {save_chunk(Self, chunk.v)} :
           /\ Cardinality({o \div 2 : o \in DOMAIN r.self.chunk_memory.bytes}) <= MaxSavedBlocks
           /\ SetSelf(r.self)
           /\ last' = Call("save_chunk", CoordOf(chunk.v), r.status, FALSE, FALSE, 0)
    /\ UNCHANGED <<chunk, requested, io_failures, workers, key_in, key_out, other_components>>

FlushIndex ==
    \E r \in {flush_index(Self)} :
        /\ SetSelf(r.self)
        /\ last' = Call("flush_index", << >>, r.status, FALSE, FALSE, 0)
        /\ UNCHANGED <<chunk, requested, io_failures, workers, key_in, key_out, other_components>>

\* The store is dropped and initialize is called on the same two files; last
\* keeps the latest call on the store and notes the reopening.
Reopen ==
    /\ SetSelf(initialize(index_file, index_memory.slots, chunk_file, chunk_memory.bytes))
    /\ last' = [last EXCEPT !.reopened = TRUE]
    /\ UNCHANGED <<chunk, requested, io_failures, workers, key_in, key_out, other_components>>

Next ==
    \/ \E c \in Coords : GetOrCreateChunk(c, NoFailure)
    \/ \E c \in Coords : GetChunk(c)
    \/ \E w \in BlockWrites : SetBlock(w[1], w[2])
    \/ SaveChunk
    \/ FlushIndex
    \/ Reopen

Spec == Init /\ [][Next]_vars

(***************************************************************************)
(* The caller on a disk whose I/O may fail: every growth of a file in a    *)
(* call may fail in set_len or in map_mut.                                 *)
(***************************************************************************)
\* Two coordinates whose paths share the root and its first child.
IoCoords == {<<0, 0, 0>>, <<1024, 0, 0>>}

NextIo ==
    \/ \E c \in IoCoords, io \in IoPlans : GetOrCreateChunk(c, io)
    \/ \E c \in IoCoords : GetChunk(c)
    \/ Reopen

SpecIo == Init /\ [][NextIo]_vars

(***************************************************************************)
(* Concurrent callers.  get_or_create_chunk takes &mut self, so callers    *)
(* that share the store hold it exclusively for the whole call: a call is  *)
(* one step, and the calls of the workers run in any order.                *)
(***************************************************************************)
NumWorkers == 2
Workers == 1..NumWorkers

\* The coordinates the workers ask for: Coords and a negative coordinate.
ConcCoords == Coords \cup {<<0, 0, -1>>}

\* The workers are started, each to call get_or_create_chunk(c); again says
\* that get_or_create_chunk had returned Ok for c before, existed that the
\* store holds a chunk for c.
Spawn(c) ==
    /\ workers = << >>
    /\ get_or_create_chunk(Self, c[1], c[2], c[3], NoFailure).self.chunk_file
           <= (MaxChunks + 1) * CHUNK_LENGTH
    /\ workers' = [t \in Workers |->
                      [pc |-> "calling", coord |-> c, created |-> FALSE, address |-> 0,
                       again |-> c \in DOMAIN requested,
                       existed |-> get_chunk(Self, c[1], c[2], c[3]).ret.some,
                       chunk_len0 |-> chunk_file]]
    /\ UNCHANGED <<store_vars, chunk, last, requested, io_failures, key_in, key_out, other_components>>

\* The call of worker t.
WorkerCall(t) ==
    /\ workers # << >>
    /\ workers[t].pc = "calling"
    /\ \E c \in {workers[t].coord} :
       \E r \in {get_or_create_chunk(Self, c[1], c[2], c[3], NoFailure)} :
           /\ SetSelf(r.self)
           /\ workers' = [workers EXCEPT ![t].pc = IF r.status = "ok" THEN "returned" ELSE r.status,
                                         ![t].created = r.created,
                                         ![t].address = IF r.ret.some THEN r.ret.v.address ELSE 0]
           /\ requested' = IF r.status = "ok" /\ c \notin DOMAIN requested
                           THEN (c :> r.ret.v.address) @@ requested
                           ELSE requested
    /\ UNCHANGED <<chunk, last, io_failures, key_in, key_out, other_components>>

\* The workers are joined.
Join ==
    /\ workers # << >>
    /\ \A t \in Workers : workers[t].pc # "calling"
    /\ workers' = << >>
    /\ UNCHANGED <<store_vars, chunk, last, requested, io_failures, key_in, key_out, other_components>>

NextConc ==
    \/ \E c \in ConcCoords : Spawn(c)
    \/ \E t \in Workers : WorkerCall(t)
    \/ Join

SpecConc == Init /\ [][NextConc]_vars

(***************************************************************************)
(* The key encoder on its own: two coordinates are encoded.                *)
(***************************************************************************)
\* i16 values: every single bit, no bit and all bits, the largest value.
AxisSamples == {0, -1, 32767, -32768} \cup {Pow2(i) : i \in 0..14}
FewSamples == {0, 1, -1, 256, -32768}

\* One axis takes any sample, the others a few.
KeyCoords ==
    {<<a, b, c>> : a \in AxisSamples, b \in FewSamples, c \in FewSamples} \cup
    {<<b, a, c>> : a \in AxisSamples, b \in FewSamples, c \in FewSamples} \cup
    {<<b, c, a>> : a \in AxisSamples, b \in FewSamples, c \in FewSamples}

\* The coordinates a is paired with: a with one axis changed, a with two axes
\* exchanged.
Partners(a) ==
    {[a EXCEPT ![k] = v] : k \in 1..3, v \in FewSamples} \cup
    {<<a[2], a[1], a[3]>>, <<a[3], a[2], a[1]>>, <<a[1], a[3], a[2]>>}

InitKey ==
    /\ InitWorld
    /\ InitFolder
    /\ InitScheduler(1)
    /\ InitStorage
    /\ InitExtra
    /\ key_in \in UNION {{Some(<<a, b>>) : b \in Partners(a)} : a \in KeyCoords}

CreateChunkKey ==
    /\ key_in.some
    /\ key_out = None
    /\ key_out' = Some(<<create_chunk_key(key_in.v[1][1], key_in.v[1][2], key_in.v[1][3]),
                         create_chunk_key(key_in.v[2][1], key_in.v[2][2], key_in.v[2][3])>>)
    /\ UNCHANGED <<store_vars, chunk, last, requested, io_failures, workers, key_in, other_components>>

SpecKey == InitKey /\ [][CreateChunkKey]_vars

(***************************************************************************)
(* The properties of the store.                                            *)
(***************************************************************************)
\* A step that is a call of op on the store (Reopen keeps last.op and sets
\* last.reopened).
Called(op) == last'.op = op /\ ~last'.reopened

\* C1: on a store that started from empty files, get_chunk(c) returns Some
\* exactly for the coordinates c that were passed to get_or_create_chunk, and
\* None for every other coordinate.
AbsenceVsPresence ==
    (last.op = "get_chunk" /\ last.status = "ok")
        => (last.some <=> last.coord \in DOMAIN requested)

\* C2: save_chunk(p) of a chunk of coordinate c followed by get_chunk(c), in
\* the same session or after reopening the store, returns a payload whose
\* every block equals the block of p.
RoundTrip ==
    [][(/\ last.op = "save_chunk"
        /\ last.status = "ok"
        /\ Called("get_chunk")
        /\ last'.coord = last.coord)
           => (/\ last'.status = "ok"
               /\ last'.some
               /\ chunk'.v.storage = chunk.v.storage)]_vars

\* C3: the first get_or_create_chunk(c) reports created = true; every later
\* get_or_create_chunk(c) reports created = false, returns the backing offset
\* of the first, and leaves the lengths of the index file and of the chunk
\* file unchanged.
IdempotentCreation ==
    [][(Called("get_or_create_chunk") /\ last'.status = "ok")
           => IF last'.again
              THEN /\ ~last'.created
                   /\ chunk'.v.address = requested[last'.coord]
                   /\ index_file' = index_file
                   /\ chunk_file' = chunk_file
              ELSE last'.created]_vars

\* C4: a chunk that get_or_create_chunk returns with created = true is
\* all-zero, whatever was created and saved before it.
CreatedChunkIsZero ==
    (last.op = "get_or_create_chunk" /\ last.status = "ok" /\ last.created)
        => chunk.v.storage = << >>

\* C5: when the workers call get_or_create_chunk concurrently for a
\* coordinate that was never asked for, exactly one of them reports having
\* created the chunk, the chunk file grows by one chunk length, and all of
\* them return the same backing offset.
AtMostOnceAllocation ==
    (/\ workers # << >>
     /\ \A t \in Workers : workers[t].pc = "returned"
     /\ ~workers[1].again)
        => (/\ Cardinality({t \in Workers : workers[t].created}) = 1
            /\ chunk_file = workers[1].chunk_len0 + CHUNK_LENGTH
            /\ \A t \in Workers : workers[t].address = workers[1].address)

\* C6: create_chunk_key is injective: two different (x, y, z) never produce
\* the same key, negative values included.
KeyInjective ==
    (key_out.some /\ key_in.v[1] # key_in.v[2]) => key_out.v[1] # key_out.v[2]

\* Two different coordinates, with negative values, have been encoded.
KeyInjectiveWitness ==
    /\ key_out.some
    /\ key_in.v[1] = <<-1, 0, 0>>
    /\ key_in.v[2] = <<0, -1, 0>>
    /\ key_out.v[1] # key_out.v[2]

\* Bit i of the two's-complement form of an i16.
TwosBit(v, i) == ((v + 65536) \div Pow2(i)) % 2 = 1

\* The Morton key of a coordinate, bit by bit.
Interleaved(c) ==
    {3 * i + 2 : i \in {j \in 0..15 : TwosBit(c[1], j)}} \cup
    {3 * i + 1 : i \in {j \in 0..15 : TwosBit(c[2], j)}} \cup
    {3 * i : i \in {j \in 0..15 : TwosBit(c[3], j)}}

\* C7: bit i of x lands at key bit 3i+2, bit i of y at key bit 3i+1 and bit i
\* of z at key bit 3i; no other key bit is set, so every key is below 2^48.
KeyInterleavesBits ==
    key_out.some =>
        \A k \in 1..2 : /\ key_out.v[k] = Interleaved(key_in.v[k])
                        /\ key_out.v[k] \subseteq 0..47

\* A coordinate with the top bit of x, the low bit of y and every bit of z has
\* been encoded.
KeyInterleavesBitsWitness ==
    /\ key_out.some
    /\ key_in.v[1] = <<-32768, 1, -1>>
    /\ {47, 1, 45, 0} \subseteq key_out.v[1]
    /\ 46 \notin key_out.v[1]

\* What get_chunk(c) returns in the current state, and in the next one.
Lookup(c) == get_chunk(Self, c[1], c[2], c[3])
LookupNext(c) ==
    get_chunk([index_file |-> index_file', chunk_file |-> chunk_file',
               index_memory |-> index_memory', chunk_memory |-> chunk_memory'],
              c[1], c[2], c[3])

\* C8: once get_chunk(c) returns Some with a backing offset, it returns Some
\* with the same offset after every later call on the store: no step that
\* changes the store changes what get_chunk finds for a chunk it found before.
ChunksNeverMove ==
    [][store_vars' # store_vars =>
           \A c \in Coords :
               LET before == Lookup(c).ret
                   after == LookupNext(c).ret
               IN  before.some => (after.some /\ after.v.address = before.v.address)]_vars

\* A chunk is found after a second chunk was created and a chunk was saved.
ChunksNeverMoveWitness ==
    /\ last.op = "save_chunk"
    /\ chunk_file = 3 * CHUNK_LENGTH
    /\ chunk_memory.bytes # << >>
    /\ \A c \in Coords : Lookup(c).ret.some

\* The digits of the key of a coordinate, in the order the walk uses them.
Digits(c) ==
    LET key_bytes == to_le_bytes(create_chunk_key(c[1], c[2], c[3]))
    IN  <<key_bytes[4], key_bytes[5], key_bytes[6], key_bytes[7], key_bytes[8]>>

\* The slot of digit d in the node at offset: {} is an unset link.
Link(offset, d) == from_le_bytes(ReadSlot(index_memory, offset + 8 * d))

RECURSIVE FirstUnset(_, _, _)
\* The position of the first unset link of a chain from its k-th digit on; 0 if
\* every link is set.
FirstUnset(digits, k, offset) ==
    IF k > Len(digits) THEN 0
    ELSE IF Link(offset, digits[k]) = {} THEN k
    ELSE FirstUnset(digits, k + 1, Val(Link(offset, digits[k]) \ SENTINEL))

\* C9: get_chunk leaves the index file length, the chunk file length and every
\* index slot unchanged, and returns None as soon as a link of the chain is
\* unset: it looks at no link after the first unset one.
GetChunkCreatesNothing ==
    [][Called("get_chunk") =>
           /\ UNCHANGED store_vars
           /\ last'.status = "ok"
           /\ last'.some <=> FirstUnset(Digits(last'.coord), 1, 0) = 0
           /\ ~last'.some => last'.lookups = FirstUnset(Digits(last'.coord), 1, 0)]_vars

\* get_chunk has returned None at the second link of a chain whose first link
\* is set.
GetChunkCreatesNothingWitness ==
    /\ last.op = "get_chunk"
    /\ ~last.reopened
    /\ ~last.some
    /\ last.lookups = 2
    /\ index_file > NODE_LENGTH

\* The offsets of the set slots of the index, and the pointer a slot holds.
SetSlots == {o \in DOMAIN index_memory.slots : index_memory.slots[o] # ZeroSlot}
PointerAt(o) == from_le_bytes(index_memory.slots[o]) \ SENTINEL
NodeOf(o) == o - (o % NODE_LENGTH)

\* The nodes below the root: as many levels as the walk has node keys.
TreeDepth == Len(node_keys({}))

RECURSIVE NodesAt(_)
\* The offsets of the nodes d links away from the root.
NodesAt(d) ==
    IF d = 0 THEN {Val(ROOT)}
    ELSE LET parents == NodesAt(d - 1)
         IN  {Val(PointerAt(o)) : o \in {s \in SetSlots : NodeOf(s) \in parents}}

\* The chunk file offsets the terminal nodes point to.
ChunkLinks ==
    LET parents == NodesAt(TreeDepth)
    IN  {Val(Shl(PointerAt(o), 4)) : o \in {s \in SetSlots : NodeOf(s) \in parents}}

\* C10: a get_or_create_chunk call in which a file growth fails returns an
\* error and no chunk, and in every state each set slot of the index holds the
\* offset of a node or of a chunk that lies wholly inside its file and inside
\* the mapping of the file.
NoDanglingPointers ==
    /\ last.op = "get_or_create_chunk" =>
           /\ last.status \in {"ok", "err"}
           /\ last.status = "err" => ~last.some
    /\ LET nodes == UNION {NodesAt(d) : d \in 0..TreeDepth}
       IN  \A o \in SetSlots : NodeOf(o) \in nodes
    /\ \A d \in 1..TreeDepth : \A p \in NodesAt(d) :
           /\ p % NODE_LENGTH = 0
           /\ p + NODE_LENGTH <= index_file
           /\ p + NODE_LENGTH <= index_memory.len
    /\ \A q \in ChunkLinks :
           /\ q % CHUNK_LENGTH = 0
           /\ q + CHUNK_LENGTH <= chunk_file
           /\ q + CHUNK_LENGTH <= chunk_memory.len

\* A call has failed in map_mut after the file was grown, on an index that
\* holds links.
NoDanglingPointersWitness ==
    /\ last.op = "get_or_create_chunk"
    /\ last.status = "err"
    /\ ~last.reopened
    /\ io_failures > 0
    /\ SetSlots # {}
    /\ index_file > index_memory.len

(***************************************************************************)
(* The index nodes on their own: pointers are set and read in the slots of *)
(* the root and of one more node.                                          *)
(***************************************************************************)
\* Slot keys: the first and the last slot of a node.
NodeKeys == {0, 255}

\* Offsets below 2^63: zero, a node length, 2^63 - 1.
NodeOffsets == {{}, Bits(NODE_LENGTH), 0..62}

\* The nodes the index file holds.
NodesInFile == {n \in {0, NODE_LENGTH} : n + NODE_LENGTH <= index_memory.len}

\* new_node(), once: the index file gets a second node.
NodeNew ==
    /\ index_file = NODE_LENGTH
    /\ \E r \in {new_node(Self, "none")} :
           /\ SetSelf(r.self)
           /\ last' = Call("new_node", <<Val(r.pointer)>>, r.status, FALSE, FALSE, 0)
    /\ UNCHANGED <<chunk, requested, io_failures, workers, key_in, key_out, other_components>>

\* get_node_mut(n, |node| node.set_pointer(d, o)).
NodeSetPointer(n, d, o) ==
    /\ \E r \in {get_node_mut(Self, Bits(n), d, o)} :
           /\ SetSelf(r.self)
           /\ last' = Call("set_pointer", <<n, d, o>>, r.status, FALSE, FALSE, 0)
    /\ UNCHANGED <<chunk, requested, io_failures, workers, key_in, key_out, other_components>>

\* get_node(n, |node| Ok(node.get_pointer(d))); key_out keeps what it returned.
NodeGetPointer(n, d) ==
    /\ \E r \in {get_node(Self, Bits(n), d)} :
           /\ last' = Call("get_pointer", <<n, d>>, r.status, FALSE, r.val.some, 0)
           /\ key_out' = r.val
    /\ UNCHANGED <<store_vars, chunk, requested, io_failures, workers, key_in, other_components>>

NextNode ==
    \/ NodeNew
    \/ \E n \in NodesInFile, d \in NodeKeys, o \in NodeOffsets : NodeSetPointer(n, d, o)
    \/ \E n \in NodesInFile, d \in NodeKeys : NodeGetPointer(n, d)

SpecNode == Init /\ [][NextNode]_vars

\* C11: get_pointer(d) returns None iff the 8-byte slot d is exactly zero;
\* after set_pointer(d, o), o below 2^63 and o = 0 included, get_pointer(d)
\* returns Some(o), the stored slot is the little-endian form of
\* o | 0x8000000000000000, and every other slot is unchanged.
SentinelRoundTrip ==
    [][/\ Called("get_pointer") =>
              /\ last'.status = "ok"
              /\ ~last'.some <=> ReadSlot(index_memory, last'.coord[1] + 8 * last'.coord[2]) = ZeroSlot
              /\ last'.some => key_out'.v =
                     from_le_bytes(ReadSlot(index_memory, last'.coord[1] + 8 * last'.coord[2])) \ {63}
       /\ Called("set_pointer") =>
              LET at == last'.coord[1] + 8 * last'.coord[2]
                  o == last'.coord[3]
              IN  /\ last'.status = "ok"
                  /\ get_pointer(IndexNode_load(last'.coord[1]), last'.coord[2], index_memory') = Some(o)
                  /\ ReadSlot(index_memory', at) = to_le_bytes(o \cup {63})
                  /\ \A other \in (DOMAIN index_memory.slots \cup DOMAIN index_memory'.slots) \ {at} :
                         ReadSlot(index_memory', other) = ReadSlot(index_memory, other)
                  /\ index_memory'.len = index_memory.len]_vars

\* Offset 0 has been set in the last slot of the second node, beside a slot
\* that holds another pointer, and read back.
SentinelRoundTripWitness ==
    /\ last.op = "get_pointer"
    /\ last.coord = <<NODE_LENGTH, 255>>
    /\ key_out = Some({})
    /\ ReadSlot(index_memory, NODE_LENGTH + 8 * 255) = <<0, 0, 0, 0, 0, 0, 0, 128>>
    /\ ReadSlot(index_memory, NODE_LENGTH) # ZeroSlot

\* C12: after initialize on empty files the index file is one zero-filled node,
\* the root at offset 0; in every state the length of the index file is a
\* multiple of the node length, and so is every node offset that a slot holds
\* or that new_node returns.
IndexLayout ==
    /\ last.op = "initialize" =>
           /\ index_file = NODE_LENGTH
           /\ index_memory.len = NODE_LENGTH
           /\ \A o \in DOMAIN index_memory.slots : ReadSlot(index_memory, o) = ZeroSlot
           /\ IndexNode_load(Val(ROOT)).ok
    /\ index_file % NODE_LENGTH = 0
    /\ \A d \in 1..TreeDepth : \A p \in NodesAt(d) : p % NODE_LENGTH = 0
    /\ \A fail \in {"none", "map"} :
           LET made == new_node(Self, fail)
           IN  /\ made.status # "panic"
               /\ Val(made.pointer) % NODE_LENGTH = 0
               /\ made.self.index_file % NODE_LENGTH = 0

\* Two chains that part below the first child of the root have been built, and
\* a growth of a file has failed on the way.
IndexLayoutWitness ==
    /\ Cardinality(NodesAt(1)) = 1
    /\ Cardinality(NodesAt(TreeDepth)) = 2
    /\ index_file >= 8 * NODE_LENGTH
    /\ io_failures > 0

(***************************************************************************)
(* A caller of the GridWorld.                                              *)
(***************************************************************************)
\* The chunk coordinates the caller names one at a time.
WorldCoords == {<<0, 0, 0>>, <<-1, -1, -1>>, <<1, 1, 1>>}

\* The corners of the ranges the caller loads.
WorldCorners == {<<-1, -1, -1>>, <<0, 0, 0>>, <<1, 1, 1>>}

\* The block the caller writes through get_chunk_mut: the first block.
WorldBlockWrites == {<<0, 7>>}

\* load_chunk(index).
LoadChunk(index) ==
    /\ \E world \in {GridWorld_load_chunk(World, index)} :
           /\ SetWorld(world)
           /\ world_last' = WorldCall("load_chunk", <<index>>, << >>, Some(world.terrain_chunks[index]))
    /\ UNCHANGED outside_world

\* get_chunk(index).
WorldGetChunk(index) ==
    /\ world_last' = WorldCall("get_chunk", <<index>>, << >>, GridWorld_get_chunk(World, index))
    /\ UNCHANGED <<terrain_chunks, provided, chunk_provider, error_log, outside_world>>

\* get_chunk_mut(index), and a block of the chunk written through it.
WorldSetBlock(index, i, v) ==
    /\ index \in DOMAIN terrain_chunks
    /\ terrain_chunks' = [terrain_chunks EXCEPT ![index].storage = (i :> v) @@ @]
    /\ world_last' = WorldCall("get_chunk_mut", <<index>>, << >>, Some(terrain_chunks'[index]))
    /\ UNCHANGED <<provided, chunk_provider, error_log, outside_world>>

\* load_chunk_range(ChunkRange::from_end_points(first, second)).
LoadChunkRange(first, second) ==
    /\ \E range \in {from_end_points(first, second)} :
           /\ SetWorld(load_chunk_range(World, range))
           /\ world_last' = WorldCall("load_chunk_range", <<first, second>>, iter_xyz(range), None)
    /\ UNCHANGED outside_world

NextWorld ==
    \/ \E index \in WorldCoords : LoadChunk(index)
    \/ \E index \in WorldCoords : WorldGetChunk(index)
    \/ \E index \in WorldCoords, w \in WorldBlockWrites : WorldSetBlock(index, w[1], w[2])
    \/ \E first \in WorldCorners, second \in WorldCorners : LoadChunkRange(first, second)

SpecWorld == Init /\ [][NextWorld]_vars

\* The coordinates of the box with corners low and high, both included.
InclusiveBox(low, high) ==
    {<<x, y, z>> : x \in low[1]..high[1], y \in low[2]..high[2], z \in low[3]..high[3]}

\* C13: loading the chunk range with corners low and high visits every
\* coordinate of the box from low to high, both included, exactly once, and
\* every one of them is loaded afterwards: 27 visits and 27 loaded chunks for
\* the corners (-1,-1,-1) and (1,1,1).
RangeCoversInclusiveBox ==
    [][world_last'.op = "load_chunk_range" =>
           LET low == world_last'.args[1]
               high == world_last'.args[2]
               visits == world_last'.visits
           IN  (\A k \in 1..3 : low[k] <= high[k]) =>
                   /\ \A c \in InclusiveBox(low, high) :
                          /\ Cardinality({i \in DOMAIN visits : visits[i] = c}) = 1
                          /\ c \in DOMAIN terrain_chunks'
                   /\ Len(visits) = Cardinality(InclusiveBox(low, high))]_vars

\* The digits of the key of a coordinate that the walk uses, the most
\* significant first.
MostSignificantFirst(c) ==
    LET digits == Digits(c)
    IN  [k \in 1..Len(digits) |-> digits[Len(digits) + 1 - k]]

\* C14: address resolution takes the digits of the key most significant first:
\* the chain of a coordinate that get_or_create_chunk has resolved starts in
\* the root at the most significant digit, goes on with each next less
\* significant digit, and ends in the chunk slot of the least significant one.
DigitsMostSignificantFirst ==
    \A c \in DOMAIN requested : FirstUnset(MostSignificantFirst(c), 1, Val(ROOT)) = 0

\* The intermediate links of a chain that are unset: every link from the first
\* unset one to the last node of the chain.  The last digit is the chunk slot.
UnsetLinks(digits) ==
    LET first_unset == FirstUnset(digits, 1, Val(ROOT))
    IN  IF first_unset = 0 THEN 0 ELSE Len(digits) - first_unset

\* C15: a get_or_create_chunk call grows the index file by one node length per
\* unset intermediate link of the chain of the coordinate, and the chunk file
\* by one chunk length iff the chunk slot was unset; the first call on a fresh
\* store leaves the index file at 10240 bytes.
MinimalGrowth ==
    [][Called("get_or_create_chunk") =>
           LET digits == Digits(last'.coord)
           IN  /\ last'.status = "ok"
               /\ index_file' = index_file + UnsetLinks(digits) * NODE_LENGTH
               /\ chunk_file' = chunk_file +
                      (IF FirstUnset(digits, 1, Val(ROOT)) # 0 THEN CHUNK_LENGTH ELSE 0)
               /\ SetSlots = {} => index_file' = 10240]_vars

\* A call has found the first link of its chain set and has made the three
\* nodes below it.
MinimalGrowthWitness ==
    /\ last.op = "get_or_create_chunk"
    /\ ~last.reopened
    /\ last.created
    /\ last.coord = <<1024, 0, 0>>
    /\ index_file = 8 * NODE_LENGTH
    /\ chunk_file = 3 * CHUNK_LENGTH

(***************************************************************************)
(* A caller of the ChunkDiskStorage.                                       *)
(***************************************************************************)
\* Neighbouring chunk coordinates.
FolderCoords == {<<0, 0, 0>>, <<1, 0, 0>>}

\* The blocks of the chunks the caller saves: blank, a block below 256, a
\* block whose two bytes differ.
FolderBlocks == {<< >>, 0 :> 7, 1 :> 258}

\* The compression level the storage was initialized with.
CompressionLevel == 9

\* The byte order of the target the build is made for.
TargetEndians == {"little", "big"}

\* save_chunk(&p) for a chunk p at c with the given blocks.
FolderSaveChunk(c, blocks) ==
    /\ root_folder' = ChunkDiskStorage_save_chunk(root_folder,
                          [ChunkData_create(c[1], c[2], c[3]) EXCEPT !.storage = blocks],
                          CompressionLevel)
    /\ saved' = (c :> blocks) @@ saved
    /\ folder_last' = FolderCall("save_chunk", c, None)
    /\ UNCHANGED outside_folder

\* get_chunk(x, y, z).
FolderGetChunk(c, target_endian) ==
    /\ folder_last' = FolderCall("get_chunk", c,
                          ChunkDiskStorage_get_chunk(root_folder, c[1], c[2], c[3], target_endian))
    /\ UNCHANGED <<root_folder, saved, outside_folder>>

NextFolder ==
    \/ \E c \in FolderCoords, blocks \in FolderBlocks : FolderSaveChunk(c, blocks)
    \/ \E c \in FolderCoords, target_endian \in TargetEndians : FolderGetChunk(c, target_endian)

SpecFolder == Init /\ [][NextFolder]_vars

MaxEvents == 3
\* The latest time a run may reach or schedule for.
MaxTime == 2

\* The numbers of threads a scheduler is made with.
ThreadCounts == {1, 2}

\* The closures the caller schedules.
Callbacks == {"nop", "next", "chain", "past"}

\* The times the caller schedules events for, in milliseconds, and the
\* Durations it ticks by, in microseconds.
SchedTimes == {0, 1, 2}
TickDeltas == {500, 1000, 2000}

InitSched ==
    /\ InitWorld
    /\ InitFolder
    /\ \E num_threads \in ThreadCounts : InitScheduler(num_threads)
    /\ InitStorage
    /\ InitExtra
    /\ key_in = None

\* scheduler.schedule_event(Event::new(time, callback)), between ticks.
SchedScheduleEvent(time, callback) ==
    /\ tick_pc = "idle"
    /\ event_ids.reserved + EventsOf(callback) <= MaxEvents
    /\ \E event \in {Event_new(event_ids.made + 1, time, callback)} :
       \E r \in {Scheduler_schedule_event(scheduler, event)} :
           /\ scheduler' = r.self
           /\ scheduled' = IF r.result = "Ok" THEN scheduled \cup {event} ELSE scheduled
           /\ sched_last' = SchedCall("schedule_event", time, now(scheduler), r.result)
           /\ event_ids' = [made |-> event_ids.made + 1,
                            reserved |-> event_ids.reserved +
                                         (IF r.result = "Ok" THEN EventsOf(callback) ELSE 1)]
    /\ UNCHANGED <<tick_pc, ran, outside_scheduler>>

\* tick(delta) begins: self.current_time += delta.
TickBegin(delta) ==
    /\ tick_pc = "idle"
    /\ add_assign(scheduler.current_time, delta) <= MaxTime
    /\ scheduler' = [scheduler EXCEPT !.current_time = add_assign(@, delta)]
    /\ tick_pc' = "pop"
    /\ sched_last' = SchedCall("tick", delta, scheduler'.current_time, "running")
    /\ UNCHANGED <<ran, scheduled, event_ids, outside_scheduler>>

\* The inner loop of tick.
TickPop ==
    /\ tick_pc = "pop"
    /\ \E order \in PopOrders(scheduler.priority_queue) : scheduler' = pop_loop(scheduler, order)
    /\ tick_pc' = "add"
    /\ UNCHANGED <<ran, scheduled, sched_last, event_ids, outside_scheduler>>

\* if !add_events(self): the loop goes on if events were added.
TickAdd ==
    /\ tick_pc = "add"
    /\ \E r \in {add_events(scheduler)} :
           /\ scheduler' = r.self
           /\ tick_pc' = IF r.added THEN "pop" ELSE "join"
    /\ UNCHANGED <<ran, scheduled, sched_last, event_ids, outside_scheduler>>

\* self.thread_pool.join(), then if !add_events(self) { break }.
TickJoinAdd ==
    /\ tick_pc = "join"
    /\ Joined(scheduler)
    /\ \E r \in {add_events(scheduler)} :
           /\ scheduler' = r.self
           /\ tick_pc' = IF r.added THEN "pop" ELSE "last_join"
    /\ UNCHANGED <<ran, scheduled, sched_last, event_ids, outside_scheduler>>

\* The join after the loop, and tick returns.
TickReturn ==
    /\ tick_pc = "last_join"
    /\ Joined(scheduler)
    /\ tick_pc' = "idle"
    /\ sched_last' = [sched_last EXCEPT !.result = "returned"]
    /\ UNCHANGED <<scheduler, ran, scheduled, event_ids, outside_scheduler>>

\* A thread of the pool that is free takes the job that was queued first.
WorkerStart ==
    /\ scheduler.thread_pool.queue # << >>
    /\ Cardinality(scheduler.thread_pool.running) < scheduler.thread_pool.num_threads
    /\ scheduler' = [scheduler EXCEPT !.thread_pool.queue = Tail(@),
                                      !.thread_pool.running = @ \cup {Head(scheduler.thread_pool.queue)}]
    /\ UNCHANGED <<tick_pc, ran, scheduled, sched_last, event_ids, outside_scheduler>>

\* A thread of the pool runs its job: next.run_callback(&proxy).
WorkerRun(next) ==
    /\ next \in scheduler.thread_pool.running
    /\ \E r \in {run_callback(scheduler, next, SchedulerProxy(next), event_ids.made + 1)} :
           /\ scheduler' = [r.self EXCEPT !.thread_pool.running = @ \ {next}]
           /\ ran' = Append(ran, next)
           /\ scheduled' = scheduled \cup
                  {r.calls[i].event : i \in {i \in DOMAIN r.calls : r.calls[i].result = "Ok"}}
           /\ sched_last' = IF r.calls = << >> THEN sched_last
                            ELSE SchedCall("proxy_schedule_event", r.calls[1].event.time,
                                           r.calls[1].now, r.calls[1].result)
           /\ event_ids' = [event_ids EXCEPT !.made = @ + Len(r.calls)]
    /\ UNCHANGED <<tick_pc, outside_scheduler>>

TickSteps == TickPop \/ TickAdd \/ TickJoinAdd \/ TickReturn
WorkerSteps == WorkerStart \/ \E next \in scheduler.thread_pool.running : WorkerRun(next)

NextSched ==
    \/ \E time \in SchedTimes, callback \in Callbacks : SchedScheduleEvent(time, callback)
    \/ \E delta \in TickDeltas : TickBegin(delta)
    \/ TickPop
    \/ TickAdd
    \/ TickJoinAdd
    \/ TickReturn
    \/ WorkerStart
    \/ \E next \in scheduler.thread_pool.running : WorkerRun(next)

SpecSched == InitSched /\ [][NextSched]_vars

\* C17: with one worker thread the callbacks run in the order of the times of
\* their events, an event before every event scheduled for a later time,
\* whether the events were scheduled before the tick or by a callback during
\* it.
RunInTimeOrder ==
    scheduler.thread_pool.num_threads = 1 =>
        \A i, j \in DOMAIN ran : i < j => ran[i].time <= ran[j].time

\* C18: Scheduler::schedule_event returns ScheduledInPast and queues nothing
\* when the time of the event is before now(), and succeeds when it is not;
\* SchedulerProxy::schedule_event does the same against the time of the event
\* whose callback holds the proxy.
PastIsRejected ==
    [][/\ (tick_pc = "idle" /\ event_ids'.made # event_ids.made) =>
              /\ sched_last'.op = "schedule_event"
              /\ sched_last'.result = "ScheduledInPast" <=> sched_last'.time < now(scheduler)
              /\ sched_last'.result = "Ok" <=> sched_last'.time >= now(scheduler)
              /\ sched_last'.result = "ScheduledInPast" => scheduler' = scheduler /\ scheduled' = scheduled
              /\ sched_last'.result = "Ok" =>
                     /\ Len(scheduler'.event_channel) = Len(scheduler.event_channel) + 1
                     /\ scheduler'.event_channel[Len(scheduler'.event_channel)].time = sched_last'.time
                     /\ SubSeq(scheduler'.event_channel, 1, Len(scheduler.event_channel))
                            = scheduler.event_channel
       /\ (ran' # ran /\ event_ids'.made # event_ids.made) =>
              LET holder == ran'[Len(ran')]
              IN  /\ sched_last'.op = "proxy_schedule_event"
                  /\ sched_last'.now = holder.time
                  /\ sched_last'.result = "ScheduledInPast" <=> sched_last'.time < holder.time
                  /\ sched_last'.result = "Ok" <=> sched_last'.time >= holder.time
                  /\ sched_last'.result = "ScheduledInPast" =>
                         /\ scheduler'.event_channel = scheduler.event_channel
                         /\ scheduler'.priority_queue = scheduler.priority_queue
                         /\ scheduled' = scheduled
                  /\ sched_last'.result = "Ok" =>
                         /\ Len(scheduler'.event_channel) = Len(scheduler.event_channel) + 1
                         /\ scheduler'.event_channel[Len(scheduler'.event_channel)].time
                                = sched_last'.time]_vars

\* A proxy has rejected an event for a time before the time of the event whose
\* callback held it, after the scheduler itself had rejected an event.
PastIsRejectedWitness ==
    /\ sched_last.op = "proxy_schedule_event"
    /\ sched_last.result = "ScheduledInPast"
    /\ sched_last.time < sched_last.now
    /\ event_ids.made > Cardinality(scheduled) + 1

\* The tick thread goes on with its call, and the threads of the pool take and
\* run the jobs they are given.
SpecSchedLive == InitSched /\ [][NextSched]_vars /\ WF_vars(TickSteps) /\ WF_vars(WorkerSteps)

\* The number of times the callback of an event has run.
RunCount(event) == Cardinality({i \in DOMAIN ran : ran[i] = event})

\* C19: when tick returns, the callback of every event whose time is at most
\* the time of the scheduler has run exactly once, the events scheduled by
\* callbacks during the tick included, to any depth; no callback ever runs
\* twice; and a tick that has begun returns.
CascadeCompletes ==
    /\ [](sched_last.result = "returned" =>
              \A event \in scheduled : event.time <= now(scheduler) => RunCount(event) = 1)
    /\ [](\A i \in DOMAIN ran : RunCount(ran[i]) = 1 /\ ran[i] \in scheduled)
    /\ (tick_pc # "idle") ~> (tick_pc = "idle")

\* A tick has returned after a chain of three events, each scheduled by the
\* callback of the one before, has run within it.
CascadeCompletesWitness ==
    /\ sched_last.result = "returned"
    /\ Len(ran) = 3
    /\ ran[1].callback = "chain" /\ ran[2].callback = "next" /\ ran[3].callback = "nop"
    /\ ran[2].id > ran[1].id /\ ran[3].id > ran[2].id
    /\ ran[3].time = ran[1].time + 2

\* C20: load_chunk always yields a chunk for the coordinate asked for; a chunk
\* that is absent is created and passed to the chunk provider once; a later
\* load_chunk or get_chunk of the coordinate returns that chunk with its
\* current contents and the provider is not called again; get_chunk creates
\* nothing and returns None for a coordinate that was never loaded.
LoadChunkOnce ==
    [][/\ \A index \in DOMAIN terrain_chunks' \cup DOMAIN provided' :
              /\ index \in DOMAIN terrain_chunks'
              /\ terrain_chunks'[index].index = index
              /\ ProvidedFor([terrain_chunks |-> terrain_chunks', provided |-> provided'], index) = 1
       /\ DOMAIN terrain_chunks \subseteq DOMAIN terrain_chunks'
       /\ world_last'.op = "load_chunk" =>
              LET index == world_last'.args[1]
              IN  /\ world_last'.ret.some
                  /\ world_last'.ret.v.index = index
                  /\ world_last'.ret.v = terrain_chunks'[index]
                  /\ index \in DOMAIN terrain_chunks =>
                         /\ world_last'.ret.v = terrain_chunks[index]
                         /\ terrain_chunks' = terrain_chunks
                         /\ provided' = provided
                  /\ index \notin DOMAIN terrain_chunks =>
                         /\ world_last'.ret.v = provide_chunk(chunk_provider.generators, Chunk_new(index))
                         /\ DOMAIN terrain_chunks' = DOMAIN terrain_chunks \cup {index}
       /\ world_last'.op = "get_chunk" =>
              LET index == world_last'.args[1]
              IN  /\ terrain_chunks' = terrain_chunks
                  /\ provided' = provided
                  /\ world_last'.ret.some <=> index \in DOMAIN terrain_chunks
                  /\ world_last'.ret.some => world_last'.ret.v = terrain_chunks[index]]_vars

\* load_chunk has returned a chunk that was loaded before and written to
\* since, with the block written, and the provider has seen it once.
LoadChunkOnceWitness ==
    /\ world_last.op = "load_chunk"
    /\ world_last.ret.some
    /\ world_last.ret.v.storage = 0 :> 7
    /\ ProvidedFor(World, world_last.args[1]) = 1
    /\ Cardinality(DOMAIN terrain_chunks) > 1

(***************************************************************************)
(* A caller of the EventTypeRegistry.                                      *)
(***************************************************************************)
\* The registrations the caller makes at most.
MaxRegistrations == 3

\* Package names and event names: with and without a colon.
PackageNames == {<<"c">>, <<"c", ":">>}
EventNames == {<<"A">>, <<"B">>, <<":", "A">>}

\* The type names and ids the caller looks up.
TypeNames == {format_name(<<"c">>, <<"A">>), format_name(<<"c">>, <<"B">>), <<"c">>}
TypeIds == 0..MaxRegistrations

\* registry.register_event_message_raw(package_name, event_name).
RegisterEventMessageRaw(package_name, event_name) ==
    /\ Len(event_type_names) < MaxRegistrations
    /\ \E r \in {register_event_message_raw(Registry, package_name, event_name)} :
           /\ event_type_ids' = r.self.event_type_ids
           /\ event_type_names' = r.self.event_type_names
           /\ registry_last' = RegistryCall("register_event_message_raw",
                                            <<package_name, event_name>>, r.result)
    /\ UNCHANGED outside_registry

\* registry.get_event_type_id(event_name).
GetEventTypeId(event_name) ==
    /\ registry_last' = RegistryCall("get_event_type_id", <<event_name>>,
                                     get_event_type_id(Registry, event_name))
    /\ UNCHANGED <<event_type_ids, event_type_names, outside_registry>>

\* registry.get_event_type_name(event_id).
GetEventTypeName(event_id) ==
    /\ registry_last' = RegistryCall("get_event_type_name", <<event_id>>,
                                     get_event_type_name(Registry, event_id))
    /\ UNCHANGED <<event_type_ids, event_type_names, outside_registry>>

NextRegistry ==
    \/ \E package_name \in PackageNames, event_name \in EventNames :
           RegisterEventMessageRaw(package_name, event_name)
    \/ \E event_name \in TypeNames : GetEventTypeId(event_name)
    \/ \E event_id \in TypeIds : GetEventTypeName(event_id)

SpecRegistry == Init /\ [][NextRegistry]_vars

\* C21: after successful registrations every registered name has an id, every
\* id below the number of registrations has a name, the name of the id of a
\* registered name is that name, and distinct ids name distinct event types.
RegistryRoundTrip ==
    LET count == Len(event_type_names)
    IN  /\ \A i \in 1..count :
               LET n == event_type_names[i]
                   id == get_event_type_id(Registry, n)
               IN  /\ id.some
                   /\ get_event_type_name(Registry, id.v) = Some(n)
        /\ \A id \in 0..(count - 1) : get_event_type_name(Registry, id).some
        /\ \A a, b \in 0..(count - 1) :
               a # b => get_event_type_name(Registry, a) # get_event_type_name(Registry, b)

(***************************************************************************)
(* A caller of a RAMWorld and of the GridWorld that is given it.           *)
(***************************************************************************)
\* The generators the caller adds at most, and the errors in the log after
\* which it makes no further call on the RAMWorld.
MaxGenerators == 3
MaxLogged == 2

\* The terrain generators the caller has.
Generators ==
    {AbstractFlatWorld_new, StubGenerator("Continue"), StubGenerator("Finished"), StubGenerator("Err")}

\* Chunks at, above and below level zero.
ProviderCoords == {<<0, 0, 0>>, <<0, 1, 0>>, <<0, -1, 0>>}

\* chunk_provider.add_generator(generator): the generators are added before
\* GridWorld::new takes the RAMWorld, that is before the world is used.
AddGenerator(generator) ==
    /\ Len(chunk_provider.generators) < MaxGenerators
    /\ world_last.op \in {"new", "add_generator"}
    /\ chunk_provider' = add_generator(chunk_provider, generator)
    /\ world_last' = WorldCall("add_generator", <<generator>>, << >>, None)
    /\ UNCHANGED <<terrain_chunks, provided, error_log, outside_world>>

\* chunk_provider.provide_chunk(&mut Chunk::new(index)), on the RAMWorld.
ProvideChunk(index) ==
    /\ Len(error_log) < MaxLogged
    /\ \E r \in {provide_chunk_run(chunk_provider.generators, 1, Chunk_new(index), << >>, << >>)} :
           /\ provider_last' = ProviderCall("provide_chunk", chunk_provider.generators,
                                            Some(r.chunk), r.calls, r.log)
           /\ error_log' = error_log \o r.log
    /\ UNCHANGED <<terrain_chunks, provided, world_last, chunk_provider, outside_provider>>

NextProvider ==
    \/ \E generator \in Generators : AddGenerator(generator)
    \/ \E index \in ProviderCoords : ProvideChunk(index)
    \/ \E index \in ProviderCoords : LoadChunk(index)

SpecProvider == Init /\ [][NextProvider]_vars

\* The generators among those called that failed, in the order of the calls.
FailedCalls(call) == SelectSeq(call.calls, LAMBDA k : call.generators[k].result = "Err")

\* C22: provide_chunk calls the generators in the order they were added;
\* after Continue the next one is called, after Finished no later one is
\* called, and after a failure the failure is logged and the next one is
\* still called.
GeneratorsInOrder ==
    provider_last.op = "provide_chunk" =>
        LET generators == provider_last.generators
            calls == provider_last.calls
        IN  /\ Len(calls) <= Len(generators)
            /\ Len(generators) > 0 => Len(calls) > 0
            /\ \A k \in 1..Len(calls) :
                   /\ calls[k] = k
                   /\ generators[k].result \in {"Continue", "Err"} /\ k < Len(generators)
                          => Len(calls) > k
                   /\ generators[k].result = "Finished" => Len(calls) = k
            /\ provider_last.log = [n \in 1..Len(FailedCalls(provider_last)) |->
                                       ErrorLogged(FailedCalls(provider_last)[n])]

\* A generator has failed, the next one has finished, and a third was not
\* called.
GeneratorsInOrderWitness ==
    /\ provider_last.op = "provide_chunk"
    /\ Len(provider_last.generators) = 3
    /\ provider_last.generators[1].result = "Err"
    /\ provider_last.generators[2].result = "Finished"
    /\ provider_last.calls = <<1, 2>>
    /\ provider_last.log = <<ErrorLogged(1)>>

(***************************************************************************)
(* A caller of a Chunk.                                                    *)
(***************************************************************************)
\* The corners of the ranges the caller selects: inside the chunk, and on
\* and past its far side.
LocalCorners ==
    {<<0, 0, 0>>, <<1, 2, 1>>, <<CHUNK_DIAMETER, CHUNK_DIAMETER, CHUNK_DIAMETER>>}

\* The ranges the caller iterates: Chunk::range_all_blocks() and the ranges
\* of two corners each.
LocalRanges ==
    {range_all_blocks} \cup
    {LocalBlockRange_from_end_points(first, second) : first, second \in LocalCorners}

\* The six iteration orders.
Orders == DOMAIN AxisOrders

\* The blocks the caller writes.
BlockValues == {None, Some(1)}

\* The indexes the caller passes to direct_access: the first and the last
\* block, and the two indexes that follow.
DirectIndexes == {0, 1, NumBlocks - 1, NumBlocks, NumBlocks + 1}

\* The local coordinates the caller passes to get_single_block_local.
LocalCoords == {<<0, 0, 0>>, <<1, 0, 0>>, <<CHUNK_DIAMETER, 0, 0>>, <<CHUNK_DIAMETER + 1, 0, 0>>}

\* for block in range.iter_<order>(&chunk): the blocks are read.
Iterate(range, order) ==
    /\ \E visits \in {LocalBlockRange_iter(range, order)} :
           chunk_last' = ChunkCall("iter", <<range, order>>, visits,
                                   [i \in 1..Len(visits) |-> get_single_block_local(local_chunk, visits[i])],
                                   None)
    /\ UNCHANGED <<local_chunk, outside_chunk>>

\* range.iter_<order>_mut(&mut chunk).for_each(|block| *block = value).
IterateMut(range, order, value) ==
    /\ \E visits \in {LocalBlockRange_iter(range, order)} :
           /\ local_chunk' = for_each_set(local_chunk, visits, 1, value)
           /\ chunk_last' = ChunkCall("iter_mut", <<range, order, value>>, visits, << >>, None)
    /\ UNCHANGED outside_chunk

\* chunk.direct_access(index).
DirectAccess(index) ==
    /\ chunk_last' = ChunkCall("direct_access", <<index>>, << >>, << >>,
                               direct_access(local_chunk, index))
    /\ UNCHANGED <<local_chunk, outside_chunk>>

\* chunk.direct_access_mut(index), and value written through the reference
\* when there is one.
DirectAccessMut(index, value) ==
    /\ \E r \in {direct_access_mut(local_chunk, index, value)} :
           /\ local_chunk' = r.chunk
           /\ chunk_last' = ChunkCall("direct_access_mut", <<index, value>>, << >>, << >>,
                                      [ok |-> r.ok])
    /\ UNCHANGED outside_chunk

\* chunk.get_single_block_local(location).
GetSingleBlockLocal(location) ==
    /\ chunk_last' = ChunkCall("get_single_block_local", <<location>>, << >>, << >>,
                               get_single_block_local(local_chunk, location))
    /\ UNCHANGED <<local_chunk, outside_chunk>>

\* *chunk.get_single_block_local_mut(location) = value.
GetSingleBlockLocalMut(location, value) ==
    /\ \E r \in {get_single_block_local_mut(local_chunk, location, value)} :
           /\ local_chunk' = r.chunk
           /\ chunk_last' = ChunkCall("get_single_block_local_mut", <<location, value>>, << >>, << >>,
                                      [panic |-> r.panic])
    /\ UNCHANGED outside_chunk

NextChunk ==
    \/ \E range \in LocalRanges, order \in Orders : Iterate(range, order)
    \/ \E range \in LocalRanges, order \in Orders, value \in BlockValues : IterateMut(range, order, value)
    \/ \E index \in DirectIndexes : DirectAccess(index)
    \/ \E index \in DirectIndexes, value \in BlockValues : DirectAccessMut(index, value)
    \/ \E location \in LocalCoords : GetSingleBlockLocal(location)
    \/ \E location \in LocalCoords, value \in BlockValues : GetSingleBlockLocalMut(location, value)

SpecChunk == Init /\ [][NextChunk]_vars

\* C23: iterating Chunk::range_all_blocks(), in any of the six orders, visits
\* every local block position of the chunk exactly once: CHUNK_DIAMETER^3
\* items in all.
AllBlocksVisitedOnce ==
    chunk_last.op \in {"iter", "iter_mut"} /\ chunk_last.args[1] = range_all_blocks =>
        /\ Len(chunk_last.visits) = CHUNK_DIAMETER * CHUNK_DIAMETER * CHUNK_DIAMETER
        /\ Cardinality({chunk_last.visits[i] : i \in 1..Len(chunk_last.visits)}) = Len(chunk_last.visits)
        /\ \A i \in 1..Len(chunk_last.visits) :
               \A axis \in 1..3 : chunk_last.visits[i][axis] \in 0..(CHUNK_DIAMETER - 1)

\* The block id the block registry of the world gives the abstract block.
AbstractBlockId == get_block_id_from_name(chunk_provider.block_registry, "abstract_block")

\* Every block of a chunk is the given block.
EveryBlockIs(chunk_data, block) ==
    \A i \in 0..(NumBlocks - 1) : direct_access(chunk_data, i) = [ok |-> TRUE, v |-> block]

\* C24: with the AbstractFlatWorld generator as the only generator, load_chunk
\* of the chunk at (0, 0, 0) yields a chunk in which every block is the
\* abstract block, and load_chunk of (0, 1, 0) a chunk in which every block
\* is None.
FlatWorldLevels ==
    /\ Len(chunk_provider.generators) = 1
    /\ chunk_provider.generators[1].kind = "AbstractFlatWorld"
    /\ world_last.op = "load_chunk"
    => /\ AbstractBlockId.some
       /\ world_last.args[1] = <<0, 0, 0>> => EveryBlockIs(world_last.ret.v, AbstractBlockId)
       /\ world_last.args[1] = <<0, 1, 0>> => EveryBlockIs(world_last.ret.v, None)

\* A local coordinate outside the chunk.
OutOfBounds(location) == \E axis \in 1..3 : location[axis] >= CHUNK_DIAMETER

\* C25: direct_access and direct_access_mut with an index not below the block
\* count of the chunk return OutOfRange and change no block, and no access
\* through get_single_block_local or get_single_block_local_mut with a local
\* coordinate outside the chunk returns or modifies a block of the chunk.
OutOfRangeFailsFast ==
    [][/\ chunk_last'.op \in {"direct_access", "direct_access_mut"}
          /\ chunk_last'.args[1] >= NumBlocks
          => /\ ~chunk_last'.ret.ok
             /\ local_chunk' = local_chunk
       /\ chunk_last'.op \in {"get_single_block_local", "get_single_block_local_mut"}
          /\ OutOfBounds(chunk_last'.args[1])
          => /\ chunk_last'.ret.panic
             /\ local_chunk' = local_chunk]_vars

\* The store after a step, as one value.
SelfNext == [index_file |-> index_file', chunk_file |-> chunk_file',
             index_memory |-> index_memory', chunk_memory |-> chunk_memory']

\* Two regions of one chunk length each do not overlap.
Disjoint(from, other) == from + CHUNK_LENGTH <= other \/ other + CHUNK_LENGTH <= from

\* C26: the regions of the chunk file that are read and written for two
\* different created coordinates are disjoint, each is the region allocated
\* for its coordinate and lies inside the chunk file, and saving one chunk
\* does not change what is read for another.
NeverAlias ==
    [][/\ \A c \in DOMAIN requested' :
              LET found == get_chunk_address(SelfNext, create_chunk_key(c[1], c[2], c[3]))
              IN  /\ found.val.some
                  /\ Val(found.val.v) = requested'[c]
                  /\ requested'[c] + CHUNK_LENGTH <= chunk_file'
                  /\ \A d \in DOMAIN requested' \ {c} : Disjoint(requested'[c], requested'[d])
       /\ Called("save_chunk") =>
              \A d \in DOMAIN requested \ {last'.coord} : LookupNext(d).ret = Lookup(d).ret]_vars

(***************************************************************************)
(* Threads that share the ChunkDiskStorage.  save_chunk and load_chunk     *)
(* take &self and hold no lock: a call is a sequence of file system calls, *)
(* and the calls of the threads interleave.  A file that File::create has  *)
(* made and that its writers have not written yet is empty; writers are    *)
(* the threads that hold it open for writing, wherever it is renamed to.   *)
(***************************************************************************)
\* The chunk the threads share, and the blocks they save.
SharedCoords == {<<0, 0, 0>>}
SharedBlocks == {0 :> 7, 1 :> 258}

WritersOf(file) == IF "writers" \in DOMAIN file THEN file.writers ELSE {}
IsEmptyFile(file) == "empty" \in DOMAIN file

\* File::create(path): a new empty file, or the file of that name truncated.
FileCreate(folder, path, t) ==
    (path :> [empty |-> TRUE,
              writers |-> {t} \cup (IF path \in DOMAIN folder THEN WritersOf(folder[path]) ELSE {})])
        @@ folder

\* file.write_all(&to_write) and the drop of the BufWriter, by thread t: the
\* stream lands in the file the thread has created, under the name the file
\* has now; a file removed since is written to no name.
FileWriteAll(folder, t, stream) ==
    [f \in DOMAIN folder |->
        IF t \in WritersOf(folder[f])
        THEN IF WritersOf(folder[f]) = {t} THEN stream
             ELSE stream @@ [writers |-> WritersOf(folder[f]) \ {t}]
        ELSE folder[f]]

\* fs::rename(from, to): to is replaced if it exists.
FileRename(folder, from, to) ==
    (to :> folder[from]) @@ [f \in DOMAIN folder \ {from, to} |-> folder[f]]

\* fs::remove_file(path).
FileRemove(folder, path) == [f \in DOMAIN folder \ {path} |-> folder[f]]

ThreadPath(t) ==
    create_chunk_path(folder_threads[t].coord[1], folder_threads[t].coord[2], folder_threads[t].coord[3])

\* The thread moves on to pc, or returns ret.
Goto(t, pc) == folder_threads' = [folder_threads EXCEPT ![t].pc = pc]
Return(t, ret) == folder_threads' = [folder_threads EXCEPT ![t].pc = "done", ![t].ret = ret]

AllIdle == \A t \in FolderThreads : folder_threads[t].pc = "idle"

\* save_chunk on its own, before the threads start.
SaveChunkAlone(c, blocks) ==
    /\ AllIdle
    /\ root_folder' = ChunkDiskStorage_save_chunk(root_folder,
                          [ChunkData_create(c[1], c[2], c[3]) EXCEPT !.storage = blocks],
                          CompressionLevel)
    /\ saved' = (c :> blocks) @@ saved
    /\ folder_last' = FolderCall("save_chunk", c, None)
    /\ attempted' = {}
    /\ UNCHANGED <<folder_threads, outside_folder_threads>>

\* A thread calls save_chunk for a chunk that was saved before.
ThreadSaveChunk(t, c, blocks) ==
    /\ folder_threads[t].pc = "idle"
    /\ c \in DOMAIN saved
    /\ folder_threads' = [folder_threads EXCEPT ![t] =
           [op |-> "save_chunk", pc |-> "save_exists", coord |-> c, blocks |-> blocks, ret |-> None]]
    /\ attempted' = attempted \cup {blocks}
    /\ UNCHANGED <<folder_vars, outside_folder_threads>>

\* A thread calls get_chunk for a chunk that was saved before.
ThreadGetChunk(t, c, target_endian) ==
    /\ folder_threads[t].pc = "idle"
    /\ c \in DOMAIN saved
    /\ folder_threads' = [folder_threads EXCEPT ![t] =
           [op |-> "get_chunk", pc |-> "load_exists", coord |-> c, target_endian |-> target_endian,
            ret |-> None]]
    /\ UNCHANGED <<attempted, folder_vars, outside_folder_threads>>

\* save_chunk: if path.exists().
SavePathExists(t) ==
    /\ folder_threads[t].pc = "save_exists"
    /\ Goto(t, IF ThreadPath(t) \in DOMAIN root_folder THEN "backup_exists" ELSE "create")
    /\ UNCHANGED <<attempted, folder_vars, outside_folder_threads>>

\* save_chunk: if backup_path.exists().
SaveBackupExists(t) ==
    /\ folder_threads[t].pc = "backup_exists"
    /\ Goto(t, IF backup_path_of(ThreadPath(t)) \in DOMAIN root_folder THEN "remove" ELSE "rename")
    /\ UNCHANGED <<attempted, folder_vars, outside_folder_threads>>

\* save_chunk: fs::remove_file(&backup_path)?.
SaveRemoveFile(t) ==
    /\ folder_threads[t].pc = "remove"
    /\ IF backup_path_of(ThreadPath(t)) \in DOMAIN root_folder
       THEN /\ root_folder' = FileRemove(root_folder, backup_path_of(ThreadPath(t)))
            /\ Goto(t, "rename")
       ELSE /\ Return(t, "Err")
            /\ UNCHANGED root_folder
    /\ UNCHANGED <<attempted, saved, folder_last, outside_folder_threads>>

\* save_chunk: fs::rename(&path, backup_path)?.
SaveRename(t) ==
    /\ folder_threads[t].pc = "rename"
    /\ IF ThreadPath(t) \in DOMAIN root_folder
       THEN /\ root_folder' = FileRename(root_folder, ThreadPath(t), backup_path_of(ThreadPath(t)))
            /\ Goto(t, "create")
       ELSE /\ Return(t, "Err")
            /\ UNCHANGED root_folder
    /\ UNCHANGED <<attempted, saved, folder_last, outside_folder_threads>>

\* save_chunk: File::create(path)?.
SaveCreate(t) ==
    /\ folder_threads[t].pc = "create"
    /\ root_folder' = FileCreate(root_folder, ThreadPath(t), t)
    /\ Goto(t, "write")
    /\ UNCHANGED <<attempted, saved, folder_last, outside_folder_threads>>

\* save_chunk: the blocks are compressed and written, and Ok(()) is returned.
SaveWrite(t) ==
    /\ folder_threads[t].pc = "write"
    /\ root_folder' = FileWriteAll(root_folder, t,
                          DeflateEncoder(BlockBytes(folder_threads[t].blocks), CompressionLevel))
    /\ Return(t, "Ok")
    /\ UNCHANGED <<attempted, saved, folder_last, outside_folder_threads>>

\* load_chunk: if path.exists(), else Ok(false) and get_chunk returns
\* Ok(None).
LoadPathExists(t) ==
    /\ folder_threads[t].pc = "load_exists"
    /\ IF ThreadPath(t) \in DOMAIN root_folder
       THEN Goto(t, "read")
       ELSE Return(t, [ok |-> TRUE, v |-> None])
    /\ UNCHANGED <<attempted, folder_vars, outside_folder_threads>>

\* load_chunk: File::open(path)?, read_to_end and read_exact into the chunk:
\* Err when the file is gone or holds no stream.
LoadRead(t) ==
    /\ folder_threads[t].pc = "read"
    /\ IF ThreadPath(t) \notin DOMAIN root_folder THEN Return(t, [ok |-> FALSE])
       ELSE IF IsEmptyFile(root_folder[ThreadPath(t)]) THEN Return(t, [ok |-> FALSE])
       ELSE Return(t, [ok |-> TRUE,
                       v |-> Some([ChunkData_create(folder_threads[t].coord[1], folder_threads[t].coord[2],
                                                    folder_threads[t].coord[3])
                                      EXCEPT !.storage = BytesBlocks(DeflateDecoder(root_folder[ThreadPath(t)]),
                                                                     folder_threads[t].target_endian)])])
    /\ UNCHANGED <<attempted, folder_vars, outside_folder_threads>>

\* The caller of the thread takes what the call returned.
ThreadReturn(t) ==
    /\ folder_threads[t].pc = "done"
    /\ folder_threads' = [folder_threads EXCEPT ![t] = IdleThread]
    /\ UNCHANGED <<attempted, folder_vars, outside_folder_threads>>

NextFolderThreads ==
    \/ \E c \in SharedCoords, blocks \in SharedBlocks : SaveChunkAlone(c, blocks)
    \/ \E t \in FolderThreads, c \in SharedCoords, blocks \in SharedBlocks : ThreadSaveChunk(t, c, blocks)
    \/ \E t \in FolderThreads, c \in SharedCoords, target_endian \in TargetEndians :
           ThreadGetChunk(t, c, target_endian)
    \/ \E t \in FolderThreads :
           \/ SavePathExists(t)
           \/ SaveBackupExists(t)
           \/ SaveRemoveFile(t)
           \/ SaveRename(t)
           \/ SaveCreate(t)
           \/ SaveWrite(t)
           \/ LoadPathExists(t)
           \/ LoadRead(t)
           \/ ThreadReturn(t)

SpecFolderThreads == Init /\ [][NextFolderThreads]_vars

\* C27: once a save_chunk of a chunk has completed, a get_chunk of the chunk
\* that runs while other threads save the chunk never fails and never reports
\* the chunk missing: it returns Some with the blocks saved before or with
\* the blocks one of the threads saves.
ConcurrentGetFindsChunk ==
    \A t \in FolderThreads :
        folder_threads[t].op = "get_chunk" /\ folder_threads[t].pc = "done" =>
            /\ folder_threads[t].ret.ok
            /\ folder_threads[t].ret.v.some
            /\ folder_threads[t].ret.v.v.storage \in {saved[folder_threads[t].coord]} \cup attempted

\* The events the scheduler holds for later: those in the queue and those sent
\* to the channel.
Queued == scheduler.priority_queue \cup {scheduler.event_channel[i] : i \in DOMAIN scheduler.event_channel}

\* C28: tick(delta) advances now() by the whole milliseconds of delta, and
\* nothing else changes now(); no event whose time is greater than now() has
\* run: it stays queued, and when a tick returns every event whose time the
\* scheduler has reached has run exactly once.
FutureEventsWait ==
    /\ [][/\ (tick_pc = "idle" /\ tick_pc' = "pop") =>
                 now(scheduler') = now(scheduler) + (sched_last'.time \div 1000)
          /\ now(scheduler') # now(scheduler) => (tick_pc = "idle" /\ tick_pc' = "pop")]_vars
    /\ [](\A i \in DOMAIN ran : ran[i].time <= now(scheduler))
    /\ [](\A event \in scheduled :
              /\ RunCount(event) <= 1
              /\ event.time > now(scheduler) => (RunCount(event) = 0 /\ event \in Queued))
    /\ [](sched_last.result = "returned" =>
              \A event \in scheduled : event.time <= now(scheduler) => RunCount(event) = 1)

\* A tick of one millisecond and a half-millisecond tick after it have
\* returned: the event for time 1 has run, and the event for time 2, which
\* was scheduled before it, is still in the queue and has not run.
FutureEventsWaitWitness ==
    /\ sched_last.op = "tick"
    /\ sched_last.result = "returned"
    /\ sched_last.time = 500
    /\ now(scheduler) = 1
    /\ Len(ran) = 1
    /\ ran[1].time = 1
    /\ \E event \in scheduler.priority_queue :
           /\ event.time = 2
           /\ event.id < ran[1].id
           /\ RunCount(event) = 0

====
